---- MODULE Spec2Model ----
(***************************************************************************)
(* Adaptive in-car volume control: the gain smoother, the noise-to-gain    *)
(* mapping, the soft limiter and the chunk pipeline, modelled from the     *)
(* Rust sources.                                                           *)
(*                                                                         *)
(* f32 values are modelled as binary floating-point numbers of reduced     *)
(* precision: a value is an integer count of quanta (2^-f), and every      *)
(* arithmetic result is rounded to the nearest number with p significant   *)
(* bits, ties to even, exactly as IEEE-754 rounds to 24 bits.  Values      *)
(* below 2^p quanta lie on the fixed grid of the quantum (the subnormal    *)
(* range).  NaN and infinities are not modelled: all inputs are finite and *)
(* small enough that no operation overflows.                               *)
(***************************************************************************)
EXTENDS Integers, Sequences, FiniteSets, TLC

\* ---------------------------------------------------------------- bounds
\* significand bits and fraction bits of the dB/time-domain float format
PrecDb == 8
FracDb == 6
\* significand bits and fraction bits of the sample-domain float format
\* (wide enough to hold every i16 exactly, as f32 does)
PrecPcm == 22
FracPcm == 5

DB == [p |-> PrecDb, f |-> FracDb]
PCM == [p |-> PrecPcm, f |-> FracPcm]

\* the format of the samples and thresholds soft_limit is tried on
PrecLim == 4
FracLim == 12
LIM == [p |-> PrecLim, f |-> FracLim]

\* ------------------------------------------------------- f32 arithmetic
RECURSIVE Pow2(_)
Pow2(k) == IF k <= 0 THEN 1 ELSE 2 * Pow2(k - 1)

One(fmt) == Pow2(fmt.f)

Abs(x) == IF x < 0 THEN -x ELSE x

\* f32::signum: 1.0 for +0.0 and positive numbers, -1.0 for negative ones
Signum(fmt, x) == IF x < 0 THEN -One(fmt) ELSE One(fmt)

\* spacing of representable numbers around magnitude q (in quanta)
RECURSIVE Ulp(_, _)
Ulp(fmt, q) == IF q < Pow2(fmt.p) THEN 1 ELSE 2 * Ulp(fmt, q \div 2)

\* a / d rounded to the nearest integer, ties to even (a >= 0, d > 0)
RoundHalfEven(a, d) ==
    LET q == a \div d
        r == a % d
    IN  IF 2 * r < d THEN q
        ELSE IF 2 * r > d THEN q + 1
        ELSE IF q % 2 = 0 THEN q ELSE q + 1

\* the rational num/den (in quanta, den > 0) rounded to the format
Rnd(fmt, num, den) ==
    LET a == Abs(num)
        u == Ulp(fmt, a \div den)
        m == RoundHalfEven(a, den * u) * u
    IN  IF num < 0 THEN -m ELSE m

\* an f32 literal num/den
Lit(fmt, num, den) == Rnd(fmt, num * One(fmt), den)

\* strip common factors of two from a product a*b and its divisor d
RECURSIVE Reduce(_, _, _)
Reduce(a, b, d) ==
    IF d % 2 = 0 /\ a % 2 = 0 /\ a # 0 THEN Reduce(a \div 2, b, d \div 2)
    ELSE IF d % 2 = 0 /\ b % 2 = 0 /\ b # 0 THEN Reduce(a, b \div 2, d \div 2)
    ELSE <<a, b, d>>

FAdd(fmt, a, b) == Rnd(fmt, a + b, 1)
FSub(fmt, a, b) == Rnd(fmt, a - b, 1)
FNeg(a) == -a
FMul(fmt, a, b) ==
    LET r == Reduce(a, b, One(fmt)) IN Rnd(fmt, r[1] * r[2], r[3])
FDiv(fmt, a, b) ==
    LET r == Reduce(One(fmt), 1, Abs(b))
        n == IF b < 0 THEN -a ELSE a
    IN  Rnd(fmt, n * r[1], r[3])

\* f32::max / f32::min / f32::clamp on finite numbers (exact)
FMax(a, b) == IF a < b THEN b ELSE a
FMin(a, b) == IF b < a THEN b ELSE a
FClamp(x, lo, hi) == IF x < lo THEN lo ELSE IF x > hi THEN hi ELSE x

\* internal fixed-point scale of the exp and ln evaluations
Scale == Pow2(14)

\* Scale * exp(-2^-j) for j = -3 .. 14 (entry j + 4); exp(-16) and below are 0
ExpTab == <<5, 300, 2217, 6027, 9937, 12760, 14459, 15391, 15880,
            16130, 16256, 16320, 16352, 16368, 16376, 16380, 16382, 16383>>

ExpFactor(j) == IF j < -3 THEN 0 ELSE IF j > 14 THEN Scale ELSE ExpTab[j + 4]

\* Scale * exp(-k / 2^f): the product of the table entries of the set bits of k
RECURSIVE ExpAcc(_, _, _, _)
ExpAcc(f, k, i, acc) ==
    IF k = 0 THEN acc
    ELSE IF k % 2 = 1
         THEN ExpAcc(f, k \div 2, i + 1,
                     RoundHalfEven(acc * ExpFactor(f - i), Scale))
         ELSE ExpAcc(f, k \div 2, i + 1, acc)

\* f32::exp (a positive argument is evaluated as 1 / exp(-x))
FExp(fmt, x) ==
    IF x <= 0 THEN Rnd(fmt, ExpAcc(fmt.f, -x, 0, Scale) * One(fmt), Scale)
    ELSE Rnd(fmt, Scale * One(fmt), ExpAcc(fmt.f, x, 0, Scale))

\* Scale * ln(10)
Ln10 == RoundHalfEven(23026 * Scale, 10000)

\* 10f32.powf(y) = exp(y * ln 10)
FPowf10(fmt, y) ==
    LET k == RoundHalfEven(Abs(y) * Ln10, One(fmt))
        acc == ExpAcc(14, k, 0, Scale)
    IN  IF y <= 0 THEN Rnd(fmt, acc * One(fmt), Scale)
        ELSE Rnd(fmt, Scale * One(fmt), acc)

\* floor(log2(q)) for q >= 1
RECURSIVE Log2Floor(_)
Log2Floor(q) == IF q < 2 THEN 0 ELSE 1 + Log2Floor(q \div 2)

\* Scale * ln(2)
Ln2 == RoundHalfEven(69315 * Scale, 100000)

\* Scale * ln(m / Scale) for Scale <= m < 2 * Scale, by the atanh series
LnMant(m) ==
    LET z  == RoundHalfEven((m - Scale) * Scale, m + Scale)
        z2 == RoundHalfEven(z * z, Scale)
        z3 == RoundHalfEven(z * z2, Scale)
        z5 == RoundHalfEven(z3 * z2, Scale)
        z7 == RoundHalfEven(z5 * z2, Scale)
        z9 == RoundHalfEven(z7 * z2, Scale)
    IN  2 * z + RoundHalfEven(2 * z3, 3) + RoundHalfEven(2 * z5, 5)
          + RoundHalfEven(2 * z7, 7) + RoundHalfEven(2 * z9, 9)

\* f32::ln for arguments x >= 1.0
FLn(fmt, x) ==
    LET k == Log2Floor(x \div One(fmt))
        m == (x * Scale) \div (One(fmt) * Pow2(k))
    IN  Rnd(fmt, (k * Ln2 + LnMant(m)) * One(fmt), Scale)

\* sin(x) for |x| <= 1.0 by its Taylor series (f32::sin)
FSin(fmt, x) ==
    LET xs == RoundHalfEven(Abs(x) * Scale, One(fmt))
        x2 == RoundHalfEven(xs * xs, Scale)
        x3 == RoundHalfEven(xs * x2, Scale)
        x5 == RoundHalfEven(x3 * x2, Scale)
        x7 == RoundHalfEven(x5 * x2, Scale)
        x9 == RoundHalfEven(x7 * x2, Scale)
        v  == xs - RoundHalfEven(x3, 6) + RoundHalfEven(x5, 120)
                 - RoundHalfEven(x7, 5040) + RoundHalfEven(x9, 362880)
        r  == Rnd(fmt, Abs(v) * One(fmt), Scale)
    IN  IF (x < 0) = (v < 0) THEN r ELSE -r

\* ------------------------------------------------------------ time
\* resolution of Instant: one tick is one quantum of the dB/time format
TicksPerSec == One(DB)

\* Duration::as_secs_f32
as_secs_f32(d) == Rnd(DB, d * One(DB), TicksPerSec)

\* ------------------------------------------------- adaptive_gain.rs
L_DESIRED_DB == Lit(DB, 75, 1)
USER_OFFSET_DB == Lit(DB, 0, 1)
BASE_NOISE_DB == Lit(DB, 60, 1)
GAIN_SENSITIVITY == Lit(DB, 6, 10)

\* a model with the wrong slope: noise falling with speed
speed_to_noise_falling(speed_kmh) ==
    LET a == Lit(DB, 6, 1)
        b == Lit(DB, 40, 1)
    IN  FSub(DB, b, FMul(DB, a, FLn(DB, FAdd(DB, speed_kmh, One(DB)))))

speed_to_noise(speed_kmh) ==
    LET a == Lit(DB, 6, 1)
        b == Lit(DB, 40, 1)
    IN  FAdd(DB, FMul(DB, a, FLn(DB, FAdd(DB, speed_kmh, One(DB)))), b)

Smoother_new(init_db, tau_attack, tau_release, instant) ==
    [value_db |-> init_db, tau_attack |-> tau_attack,
     tau_release |-> tau_release, last_update |-> instant]

\* variant of step_tau with attack and release exchanged
step_tau_swapped(self, target_db) ==
    IF target_db < self.value_db THEN self.tau_attack ELSE self.tau_release

\* the time constant Smoother::step selects
step_tau(self, target_db) ==
    IF target_db < self.value_db THEN self.tau_release ELSE self.tau_attack

\* Smoother::step at wall-clock time instant; the smoother after the call
\* (the call returns its value_db)
step(self, target_db, instant) ==
    LET dt == as_secs_f32(instant - self.last_update)
        s1 == [self EXCEPT !.last_update = instant]
    IN  IF dt <= 0 THEN s1
        ELSE LET tau == step_tau(s1, target_db)
                 alpha == FSub(DB, One(DB), FExp(DB, FDiv(DB, FNeg(dt), tau)))
             IN  [s1 EXCEPT !.value_db =
                     FAdd(DB, s1.value_db,
                          FMul(DB, alpha, FSub(DB, target_db, s1.value_db)))]

\* the time constant Smoother::step_dt selects
step_dt_tau(self, target_db) ==
    IF target_db < self.value_db THEN self.tau_release ELSE self.tau_attack

\* variant of step_dt without the `if dt <= 0.0 { return }` guard
step_dt_unguarded(self, target_db, dt) ==
    LET tau == step_dt_tau(self, target_db)
        alpha == FSub(DB, One(DB), FExp(DB, FDiv(DB, FNeg(dt), tau)))
    IN  [self EXCEPT !.value_db =
            FAdd(DB, self.value_db,
                 FMul(DB, alpha, FSub(DB, target_db, self.value_db)))]

\* Smoother::step_dt; the smoother after the call (the call returns its value_db)
step_dt(self, target_db, dt) ==
    IF dt <= 0 THEN self
    ELSE LET tau == step_dt_tau(self, target_db)
             alpha == FSub(DB, One(DB), FExp(DB, FDiv(DB, FNeg(dt), tau)))
         IN  [self EXCEPT !.value_db =
                 FAdd(DB, self.value_db,
                      FMul(DB, alpha, FSub(DB, target_db, self.value_db)))]

db_to_lin(db) == FPowf10(DB, FDiv(DB, db, Lit(DB, 20, 1)))

\* variant of soft_limit whose bypass branch returns abs instead of sample
soft_limit_rectified(fmt, sample, threshold) ==
    LET abs == Abs(sample)
    IN  IF abs <= threshold THEN abs
        ELSE LET sign == Signum(fmt, sample)
                 exceeded == FDiv(fmt, FSub(fmt, abs, threshold),
                                  FSub(fmt, FAdd(fmt, One(fmt), abs), threshold))
             IN  FMul(fmt, sign, FAdd(fmt, threshold, exceeded))

\* variant of soft_limit whose knee divides by (abs - threshold) alone
soft_limit_unit_knee(fmt, sample, threshold) ==
    LET abs == Abs(sample)
    IN  IF abs <= threshold THEN sample
        ELSE LET sign == Signum(fmt, sample)
                 exceeded == FDiv(fmt, FSub(fmt, abs, threshold),
                                  FSub(fmt, abs, threshold))
             IN  FMul(fmt, sign, FAdd(fmt, threshold, exceeded))

\* Simple soft limiter: if |sample| > threshold => compress to avoid clip
soft_limit(fmt, sample, threshold) ==
    LET abs == Abs(sample)
    IN  IF abs <= threshold THEN sample
        ELSE LET sign == Signum(fmt, sample)
                 exceeded == FDiv(fmt, FSub(fmt, abs, threshold),
                                  FSub(fmt, FAdd(fmt, One(fmt), abs), threshold))
             IN  FMul(fmt, sign, FAdd(fmt, threshold, exceeded))

I16_MAX == 32767
I16_MIN == -32768

\* `s as f32` for an i16 s (exact)
I16ToF32(s) == s * One(PCM)

\* `x as i16` for an f32 x: truncation toward zero, saturating
F32ToI16(x) ==
    LET q == Abs(x) \div One(PCM)
        v == IF x < 0 THEN -q ELSE q
    IN  IF v > I16_MAX THEN I16_MAX ELSE IF v < I16_MIN THEN I16_MIN ELSE v

\* the limiter threshold of apply_gain_and_limit: 0.98 * max_i16
limit_threshold == FMul(PCM, Lit(PCM, 98, 100), I16ToF32(I16_MAX))

\* variant of apply_sample that relies on the cast alone: no limiter, no clamp
apply_sample_cast_only(s, gain_lin) == F32ToI16(FMul(PCM, I16ToF32(s), gain_lin))

\* variant of apply_sample that never calls soft_limit
apply_sample_unlimited(s, gain_lin) ==
    LET max_i16 == I16ToF32(I16_MAX)
        o == FMul(PCM, I16ToF32(s), gain_lin)
    IN  F32ToI16(FMin(FMax(o, -max_i16), max_i16))

\* one iteration of the loop of apply_gain_and_limit
apply_sample(s, gain_lin) ==
    LET max_i16 == I16ToF32(I16_MAX)
        s_f == I16ToF32(s)
        o == soft_limit(PCM, FMul(PCM, s_f, gain_lin), limit_threshold)
        o_clamped == FMin(FMax(o, -max_i16), max_i16)
    IN  F32ToI16(o_clamped)

apply_gain_and_limit(input, gain_lin) ==
    [k \in 1..Len(input) |-> apply_sample(input[k], gain_lin)]

\* ----------------------------------------------------------- gain.rs
G_new(l_desired_db, tau_attack, tau_release, user_offset_db, instant) ==
    [last_gain_db |-> 0, last_update |-> instant,
     tau_attack |-> tau_attack, tau_release |-> tau_release,
     l_desired_db |-> l_desired_db, user_offset_db |-> user_offset_db]

G_speed_to_noise(speed_kmh) ==
    LET a == Lit(DB, 6, 1)
        b == Lit(DB, 40, 1)
    IN  FAdd(DB, FMul(DB, a, FLn(DB, FAdd(DB, speed_kmh, One(DB)))), b)

\* variant of G_noise_db that ignores the speed
G_noise_cabin_only(cabin_db, speed_kmh) == cabin_db

G_noise_db(cabin_db, speed_kmh) == FMax(cabin_db, G_speed_to_noise(speed_kmh))

\* the policy value before the clamp
G_policy_db(self, noise_db) ==
    FAdd(DB, FSub(DB, self.l_desired_db, noise_db), self.user_offset_db)

G_raw_gain_db(self, noise_db) ==
    FClamp(G_policy_db(self, noise_db), Lit(DB, -12, 1), Lit(DB, 12, 1))

\* variant of G_tau that selects tau_attack for a target equal to the last gain
G_tau_attack_on_equal(self, raw_gain_db) ==
    IF raw_gain_db >= self.last_gain_db THEN self.tau_attack ELSE self.tau_release

G_tau(self, raw_gain_db) ==
    IF raw_gain_db > self.last_gain_db THEN self.tau_attack ELSE self.tau_release

\* AdaptiveGain::compute_gain of gain.rs: the locals of the call and the
\* state after it (the call returns last_gain_db and its linear value)
G_compute_gain(self, cabin_db, speed_kmh, instant) ==
    LET noise_db == G_noise_db(cabin_db, speed_kmh)
        raw_gain_db == G_raw_gain_db(self, noise_db)
        dt == as_secs_f32(instant - self.last_update)
        tau == G_tau(self, raw_gain_db)
        alpha == FSub(DB, One(DB), FExp(DB, FDiv(DB, FNeg(dt), tau)))
        last_gain_db ==
            FAdd(DB, self.last_gain_db,
                 FMul(DB, alpha, FSub(DB, raw_gain_db, self.last_gain_db)))
    IN  [noise_db |-> noise_db, policy_db |-> G_policy_db(self, noise_db),
         raw_gain_db |-> raw_gain_db, dt |-> dt, tau |-> tau,
         gain_lin |-> db_to_lin(last_gain_db),
         self |-> [self EXCEPT !.last_update = instant,
                               !.last_gain_db = last_gain_db]]

\* ---------------------------------------------- playbackSimulation.rs
PS_new(l_desired_db, tau_attack, tau_release, user_offset_db, instant) ==
    [last_gain_db |-> 0, last_update |-> instant,
     tau_attack |-> tau_attack, tau_release |-> tau_release,
     l_desired_db |-> l_desired_db, user_offset_db |-> user_offset_db]

PS_speed_to_noise(speed_kmh) ==
    LET a == Lit(DB, 6, 1)
        b == Lit(DB, 40, 1)
    IN  FAdd(DB, FMul(DB, a, FLn(DB, FAdd(DB, speed_kmh, One(DB)))), b)

PS_noise_db(cabin_db, speed_kmh) == FMax(cabin_db, PS_speed_to_noise(speed_kmh))

PS_policy_db(self, noise_db) ==
    FAdd(DB, FSub(DB, self.l_desired_db, noise_db), self.user_offset_db)

\* variant of PS_raw_gain_db with the clamp range of the file pipelines
PS_raw_gain_db_wide(self, noise_db) ==
    FClamp(PS_policy_db(self, noise_db), Lit(DB, -24, 1), Lit(DB, 24, 1))

PS_raw_gain_db(self, noise_db) ==
    FClamp(PS_policy_db(self, noise_db), Lit(DB, -18, 1), Lit(DB, 18, 1))

\* the floor 1e-6 of the elapsed time: the smallest positive number of the format
PS_min_dt == FMax(Lit(DB, 1, 1000000), 1)

PS_tau(self, raw_gain_db) ==
    IF raw_gain_db > self.last_gain_db THEN self.tau_attack ELSE self.tau_release

\* AdaptiveGain::compute_gain of playbackSimulation.rs: the locals of the call
\* and the state after it (the call returns last_gain_db and its linear value)
PS_compute_gain(self, cabin_db, speed_kmh, instant) ==
    LET noise_db == PS_noise_db(cabin_db, speed_kmh)
        raw_gain_db == PS_raw_gain_db(self, noise_db)
        dt == FMax(as_secs_f32(instant - self.last_update), PS_min_dt)
        tau == PS_tau(self, raw_gain_db)
        alpha == FSub(DB, One(DB), FExp(DB, FDiv(DB, FNeg(dt), tau)))
        last_gain_db ==
            FAdd(DB, self.last_gain_db,
                 FMul(DB, alpha, FSub(DB, raw_gain_db, self.last_gain_db)))
    IN  [noise_db |-> noise_db, policy_db |-> PS_policy_db(self, noise_db),
         raw_gain_db |-> raw_gain_db, dt |-> dt, tau |-> tau,
         gain_lin |-> db_to_lin(last_gain_db),
         self |-> [self EXCEPT !.last_update = instant,
                               !.last_gain_db = last_gain_db]]

\* the soft clip of the output callback: nothing clamps its result
PS_soft_clip(out) ==
    LET knee == Lit(DB, 99, 100)
    IN  IF out > knee
        THEN FAdd(DB, knee, FDiv(DB, FSub(DB, out, knee),
                                 FAdd(DB, One(DB), FSub(DB, out, knee))))
        ELSE IF out < FNeg(knee)
        THEN FAdd(DB, FNeg(knee),
                  FDiv(DB, FAdd(DB, out, knee),
                       FAdd(DB, One(DB), FSub(DB, FNeg(out), knee))))
        ELSE out

\* variant of PS_pop_front that repeats the last queued sample on underflow
PS_pop_front_hold_last(q, k) ==
    IF k <= Len(q) THEN q[k] ELSE IF Len(q) > 0 THEN q[Len(q)] ELSE 0

\* sample popped for frame k of a callback: q.pop_front().unwrap_or(0.0)
PS_pop_front(q, k) == IF k <= Len(q) THEN q[k] ELSE 0

\* a callback that takes its samples from the back of the queue
PS_queue_left_pop_back(q, nframes) == SubSeq(q, 1, Len(q) - FMin(nframes, Len(q)))

\* the queue after the nframes pop_front calls of one output callback
PS_queue_left(q, nframes) == SubSeq(q, FMin(nframes, Len(q)) + 1, Len(q))

\* the increase of played_counter in one output callback: frame.len() for
\* every frame whose popped sample is not 0.0
PS_played(q, nframes, channels) ==
    channels * Cardinality({k \in 1..nframes : PS_pop_front(q, k) # 0})

\* the frame loop of the output callback on nframes frames of `channels`
\* samples: the sample written to each frame (from_sample_ of f32 is the
\* identity), the queue left and the increase of played_counter
PS_output_callback(q, gain, nframes, channels) ==
    [data |-> [k \in 1..nframes |-> PS_soft_clip(FMul(DB, PS_pop_front(q, k), gain))],
     q |-> PS_queue_left(q, nframes),
     played |-> PS_played(q, nframes, channels)]

\* variant of PS_poll that forgets the speed when the request fails
PS_poll_reset_on_error(speed, resp) ==
    IF ~resp.transport_ok THEN 0
    ELSE IF ~resp.json_ok THEN speed
    ELSE IF resp.speed.kind # "number" THEN speed
    ELSE resp.speed.val

\* one poll of the speed poller thread: the speed it leaves in speed_shared
PS_poll(speed, resp) ==
    IF ~resp.transport_ok THEN speed
    ELSE IF ~resp.json_ok THEN speed
    ELSE IF resp.speed.kind # "number" THEN speed
    ELSE resp.speed.val

mock_get_cabin_noise_db(t) ==
    LET base == Lit(DB, 60, 1)
    IN  FAdd(DB, FAdd(DB, base,
                      FMul(DB, Lit(DB, 5, 1), FSin(DB, FMul(DB, Lit(DB, 2, 10), t)))),
             FMul(DB, Lit(DB, 8, 1), FSin(DB, FMul(DB, Lit(DB, 5, 10), t))))

mock_get_speed_kmh(t) ==
    FAdd(DB, Lit(DB, 60, 1),
         FMul(DB, Lit(DB, 40, 1), FSin(DB, FMul(DB, Lit(DB, 5, 100), t))))

\* ------------------------------------------------- audio_playback6.rs
None == [some |-> FALSE]
Some(c, s) == [some |-> TRUE, cabin_db |-> c, speed_kmh |-> s]

\* a JSON member: a number, another JSON value, or no such key
JsonNumber(v) == [kind |-> "number", val |-> v]
JsonOther == [kind |-> "string"]
JsonAbsent == [kind |-> "absent"]

\* variant of fetch_remote_state that does not look at the HTTP status
fetch_remote_state_any_status(resp) ==
    IF ~resp.transport_ok THEN None
    ELSE IF ~resp.json_ok THEN None
    ELSE IF resp.cabin_db.kind # "number" THEN None
    ELSE IF resp.speed_kmh.kind # "number" THEN None
    ELSE Some(resp.cabin_db.val, resp.speed_kmh.val)

\* Blocking HTTP fetch (returns None on any error); resp is what the request met
fetch_remote_state(resp) ==
    IF ~resp.transport_ok THEN None
    ELSE IF ~resp.status_success THEN None
    ELSE IF ~resp.json_ok THEN None
    ELSE IF resp.cabin_db.kind # "number" THEN None
    ELSE IF resp.speed_kmh.kind # "number" THEN None
    ELSE Some(resp.cabin_db.val, resp.speed_kmh.val)

\* json.get(key).and_then(|v| v.as_f64()).map(|v| v as f32)
P4_as_f32(member) ==
    IF member.kind = "number" THEN [some |-> TRUE, val |-> member.val]
    ELSE [some |-> FALSE]

\* fetch_remote_state of audio_playback4 and audio_playback5
P4_fetch_remote_state(resp) ==
    IF ~resp.transport_ok THEN None
    ELSE IF ~resp.status_success THEN None
    ELSE IF ~resp.json_ok THEN None
    ELSE LET cabin_db == P4_as_f32(resp.cabin_db)
             speed_kmh == P4_as_f32(resp.speed_kmh)
         IN  IF cabin_db.some /\ speed_kmh.some
             THEN Some(cabin_db.val, speed_kmh.val)
             ELSE None

\* the raw gain of the manual mode of audio_playback4 and audio_playback5
P4_gain_db_raw(cabin_db, speed) ==
    LET speed_noise == speed_to_noise(speed)
        noise_db == FMax(cabin_db, speed_noise)
        gain_db_raw == FAdd(DB, FSub(DB, L_DESIRED_DB, noise_db), USER_OFFSET_DB)
    IN  FMin(FMax(gain_db_raw, Lit(DB, -24, 1)), Lit(DB, 24, 1))

\* the reading the manual mode of audio_playback4 uses when the fetch fails
P4_fallback == Some(Lit(DB, 60, 1), Lit(DB, 40, 1))

\* audio_playback3: the chunks of the auto mode and the step of its clock
SAMPLE_RATE == 48000
CHUNK_SAMPLES == 480
P3_chunk_size == FMax(SAMPLE_RATE \div 10, 1)
P3_dt == FDiv(DB, Lit(DB, CHUNK_SAMPLES, 1), Lit(DB, SAMPLE_RATE, 1))

\* Duration::from_secs_f32(dt) in ticks of the clock
from_secs_f32(dt) == RoundHalfEven(dt * TicksPerSec, One(DB))

\* the gain policy of the chunk loop before the clamp
P6_policy_db(noise_db) ==
    LET baseline_noise_db == BASE_NOISE_DB
        sensitivity == GAIN_SENSITIVITY
        base_gain_db == FSub(DB, L_DESIRED_DB, baseline_noise_db)
    IN  FAdd(DB, FAdd(DB, base_gain_db,
                      FMul(DB, sensitivity, FSub(DB, noise_db, baseline_noise_db))),
             USER_OFFSET_DB)

\* keep gain within reasonable bounds to avoid extreme boosting
P6_gain_db_raw(noise_db) ==
    FMin(FMax(P6_policy_db(noise_db), Lit(DB, -24, 1)), Lit(DB, 24, 1))

P6_noise_db(cabin_db, speed_kmh) == FMax(cabin_db, speed_to_noise(speed_kmh))

\* f32::clamp(-1.0, 1.0) of a sample times the linear gain
P6_sample(sample, gain_lin) ==
    FClamp(FMul(DB, sample, gain_lin), -One(DB), One(DB))

\* samples[start..end] of a 0-based slice
Slice(samples, start, end) == [k \in 1..(end - start) |-> samples[start + k]]

P6_chunk_frames(sample_rate) == FMax(sample_rate \div 10, 1)
\* a chunk count that forgets the last, shorter chunk
P6_total_chunks_floor(len, chunk_size) == len \div chunk_size

P6_total_chunks(len, chunk_size) == (len + chunk_size - 1) \div chunk_size
P6_dt(sample_rate) ==
    FDiv(DB, Lit(DB, P6_chunk_frames(sample_rate), 1), Lit(DB, sample_rate, 1))

\* --------------------------------------------------------- model bounds
\* calls made on one smoother or gain object
MaxCalls == 3

\* samples of the decoded input file
MaxSamples == 3

\* samples of the slice handed to apply_gain_and_limit
MaxLen == 2

\* target gains (dB) handed to the smoother
Targets == {Lit(DB, x, 2) : x \in {-48, 0, 1, 48}}

\* elapsed wall-clock ticks between two calls
ElapsedTicks == {0, 40, 128}

\* explicit dt values (quanta of a second) handed to step_dt
DtValues == {-1, 0, 3, 40, 320}

\* cabin levels (dB) and speeds (km/h) of the sensors
CabinValues == {Lit(DB, x, 1) : x \in {30, 75, 110}}
SpeedValues == {Lit(DB, x, 1) : x \in {0, 120}}

\* a constant target approached by repeated step_dt calls: start values and
\* targets (dB), and the dt (quanta of a second) every call of one run passes
ConvergeStarts == {Lit(DB, x, 1) : x \in {-24, 0, 24}}
ConvergeTargets == {Lit(DB, x, 1) : x \in {-24, 0, 6, 24}}
ConvergeDts == {1, 3, 40}

\* the highest speed (km/h) the mock sensor and the tests use
TopSpeedKmh == 120

\* the next number of the dB format above q >= 0
NextUp(q) == q + Ulp(DB, q)

\* speeds handed to speed_to_noise: every number of the dB format from 0 to
\* TopSpeedKmh, each paired with its successor and with the speeds of the tests
SpeedGrid == {q \in 0..Lit(DB, TopSpeedKmh, 1) : Rnd(DB, q, 1) = q}
TestSpeeds == {Lit(DB, x, 1) : x \in {0, 30, 60, 90, 120}}

\* samples and thresholds tried on soft_limit: every number of the format LIM
\* up to 15 * 2^(FracLim + 2) quanta, with both signs for the samples
RepLim == {m * Pow2(e) : m \in 0..(Pow2(PrecLim) - 1), e \in 0..(FracLim + 2)}
LimitSamples == RepLim \cup {-q : q \in RepLim}
LimitThresholds == RepLim

\* i16 samples of the sine burst and the gains tried on apply_gain_and_limit
BurstSamples == {I16_MIN, -I16_MAX, -31744, -100, 0, 1, 100, 16384,
                 31743, 31744, 32766, I16_MAX}
BurstGains == {Lit(PCM, 1, 2), Lit(PCM, 1, 1), Lit(PCM, 2, 1), Lit(PCM, -2, 1)}
Bursts == UNION {[1..n -> BurstSamples] : n \in 0..MaxLen}

\* the decoded file: sample k of the track, sample rates and channel counts
TrackValues == <<Lit(DB, 1, 2), Lit(DB, -1, 1), Lit(DB, 1, 4), Lit(DB, 1, 1)>>
Track(n) == [k \in 1..n |-> TrackValues[((k - 1) % 4) + 1]]
SampleRates == {5, 10, 20}
ChannelCounts == {1, 2}

\* lengths of the file decoded by audio_playback3: nothing, one chunk, and one
\* chunk with a shorter one after it
P3_Lengths == {0, P3_chunk_size, P3_chunk_size + CHUNK_SAMPLES}

\* time a chunk spends before it steps the smoother (fetch latency), in ticks
Latencies == {0, 40}

\* what a request to the remote UI can meet
Unreachable ==
    [transport_ok |-> FALSE, status_success |-> FALSE, json_ok |-> FALSE,
     cabin_db |-> JsonAbsent, speed_kmh |-> JsonAbsent]
Reply(c, s) ==
    [transport_ok |-> TRUE, status_success |-> TRUE, json_ok |-> TRUE,
     cabin_db |-> JsonNumber(c), speed_kmh |-> JsonNumber(s)]
Responses == {Unreachable, Reply(Lit(DB, 52, 1), Lit(DB, 60, 1)),
              Reply(Lit(DB, 93, 1), Lit(DB, 0, 1))}

\* what a single call of fetch_remote_state can meet: no connection, an error
\* status, a body that is not JSON, and JSON with each member a number,
\* another value or absent
FetchReply(status_success, json_ok, cabin_db, speed_kmh) ==
    [transport_ok |-> TRUE, status_success |-> status_success, json_ok |-> json_ok,
     cabin_db |-> cabin_db, speed_kmh |-> speed_kmh]
JsonMembers == {JsonNumber(Lit(DB, 52, 1)), JsonNumber(Lit(DB, 93, 1)),
                JsonOther, JsonAbsent}
FetchResponses ==
    {Unreachable, FetchReply(TRUE, FALSE, JsonAbsent, JsonAbsent),
     FetchReply(FALSE, FALSE, JsonAbsent, JsonAbsent)}
    \cup {FetchReply(st, TRUE, c, k) : st \in BOOLEAN, c \in JsonMembers,
                                        k \in JsonMembers}
FetchVariants == {"audio_playback4", "audio_playback6"}

\* what a request of the speed poller can meet
SpeedReply(status_success, json_ok, speed) ==
    [transport_ok |-> TRUE, status_success |-> status_success,
     json_ok |-> json_ok, speed |-> speed]
SpeedUnreachable ==
    [transport_ok |-> FALSE, status_success |-> FALSE, json_ok |-> FALSE,
     speed |-> JsonAbsent]
SpeedResponses ==
    {SpeedUnreachable,
     SpeedReply(TRUE, TRUE, JsonNumber(Lit(DB, 120, 1))),
     SpeedReply(FALSE, TRUE, JsonNumber(Lit(DB, 120, 1))),
     SpeedReply(TRUE, FALSE, JsonAbsent),
     SpeedReply(TRUE, TRUE, JsonAbsent),
     SpeedReply(TRUE, TRUE, JsonOther)}

\* iterations of the controller thread that find microphone samples
MaxTicks == 2

\* frames of one output buffer
MaxFrames == 2

\* cabin levels (dB) of the microphone buffer and the ticks between two
\* iterations of the controller (50 ms, or 2 s after empty buffers)
MicValues == {Lit(DB, x, 1) : x \in {30, 110}}
ControllerTicks == {3, 128}

\* the lock-by-lock run of the threads: a quiet cabin, the controller at its
\* period of 50 ms, output buffers of MaxFrames frames
QuietMic == {Lit(DB, x, 1) : x \in {30}}
ControllerPeriod == {e \in ControllerTicks : \A d \in ControllerTicks : e <= d}

\* the mutexes of playbackSimulation: playback_queue, gain_lin_shared,
\* speed_shared, controller_queue and adaptive_gain
Mutexes == {"queue", "gain", "speed", "ctrl", "adaptive"}

\* Mutex::lock by thread t once the mutex is free
Lock(locks, l, t) == [locks EXCEPT ![l] = t]

\* variant of Unlock in which the guard outlives its scope
Unlock_leaked(locks, l) == locks

\* the MutexGuard goes out of scope
Unlock(locks, l) == [locks EXCEPT ![l] = "free"]

\* the lock a thread asks for at a pc, and the pc it has once it holds it
LockAsked(pc) ==
    CASE pc = "lock_queue" -> "queue"
      [] pc = "lock_gain" -> "gain"
      [] pc = "lock_speed" -> "speed"
      [] pc = "lock_ctrl" -> "ctrl"
      [] pc = "lock_adaptive" -> "adaptive"
      [] OTHER -> "none"

\* ---------------------------------------------------------------- state
VARIABLES
    prog,   \* the program or test that runs
    now,    \* the wall clock (Instant::now), in ticks
    sm,     \* the Smoother
    twin,   \* a second Smoother with the same initial value and time constants
    ag,     \* the AdaptiveGain
    ncalls, \* the calls made so far
    call,   \* the last call: its operation, inputs and results
    pl,     \* the locals of main of the file pipelines
    lv,     \* the shared state and threads of playbackSimulation
    th      \* the threads of playbackSimulation lock by lock: where each one
            \* is, its locals and the holder of each mutex

vars == <<prog, now, sm, twin, ag, ncalls, call, pl, lv, th>>

Progs == {"step", "step_dt", "gain", "live_gain", "soft_limit", "apply",
          "audio_playback6", "playbackSimulation", "fetch_remote_state",
          "audio_playback4", "audio_playback5", "playbackSimulation_threads",
          "audio_playback3", "speed_to_noise", "converge"}

Init ==
    /\ prog \in Progs
    /\ now = 0
    /\ sm = Smoother_new(0, Lit(DB, 1, 10), Lit(DB, 1, 1), 0)
    /\ twin = Smoother_new(0, Lit(DB, 1, 10), Lit(DB, 1, 1), 0)
    /\ ag = IF prog = "gain"
            THEN G_new(Lit(DB, 75, 1), Lit(DB, 1, 10), Lit(DB, 1, 1), 0, 0)
            ELSE PS_new(Lit(DB, 75, 1), Lit(DB, 12, 100), Lit(DB, 1, 1), 0, 0)
    /\ ncalls = 0
    /\ call = [op |-> "none"]
    /\ \E auto_mode \in BOOLEAN :
          pl = [pc |-> IF prog = "audio_playback6" THEN "check"
                       ELSE IF prog \in {"audio_playback4", "audio_playback5"}
                       THEN "start"
                       ELSE IF prog = "audio_playback3" THEN "start3" ELSE "idle",
                auto_mode |-> auto_mode /\ prog = "audio_playback6",
                stream_open |-> FALSE, sample_rate |-> 0, channels |-> 0,
                samples_f32 |-> <<>>, chunk_size |-> 0, total_chunks |-> 0,
                i |-> 0, t |-> 0, dt |-> 0, sink |-> <<>>, result |-> "running",
                ranges |-> <<>>, steps |-> 0]
    /\ \E channels \in ChannelCounts :
          lv = IF prog = "playbackSimulation_threads"
               THEN [main_pc |-> "keep_alive",
                     result |-> "running", load_failed |-> FALSE,
                     playback_queue |-> Track(MaxSamples), gain_lin_shared |-> One(DB),
                     speed_shared |-> 0, played_counter |-> 0,
                     channels_out |-> channels,
                     out_stream |-> "playing", in_stream |-> "playing",
                     poller |-> "poll", monitor |-> TRUE, controller |-> TRUE,
                     ticks |-> 0]
               ELSE [main_pc |-> IF prog = "playbackSimulation" THEN "load" ELSE "idle",
                     result |-> "running", load_failed |-> FALSE,
                     playback_queue |-> <<>>, gain_lin_shared |-> One(DB),
                     speed_shared |-> 0, played_counter |-> 0, channels_out |-> 0,
                     out_stream |-> "none", in_stream |-> "none",
                     poller |-> "off", monitor |-> FALSE, controller |-> FALSE,
                     ticks |-> 0]
    /\ th = [poller |-> "sleep", pending |-> 0,
             controller |-> "lock_ctrl", c_cabin |-> 0, c_speed |-> 0, c_gain_lin |-> 0,
             monitor |-> "lock_queue", input |-> "lock_ctrl",
             output |-> "lock_queue", o_gain |-> 0,
             mic |-> <<>>,
             locks |-> [l \in Mutexes |-> "free"]]

\* Smoother::step on sm after e more ticks; twin gets step_dt with the dt that
\* step measured
Step ==
    /\ prog = "step"
    /\ ncalls < MaxCalls
    /\ \E target_db \in Targets, e \in ElapsedTicks :
          /\ ncalls' = ncalls + 1
          /\ now' = now + e
          /\ LET dt == as_secs_f32(now' - sm.last_update)
             IN  /\ sm' = step(sm, target_db, now')
                 /\ twin' = step_dt(twin, target_db, dt)
                 /\ call' = [op |-> "step", target |-> target_db, dt |-> dt,
                             prev |-> sm.value_db, ret |-> sm'.value_db,
                             tau |-> step_tau(sm, target_db),
                             tau_attack |-> sm.tau_attack, tau_release |-> sm.tau_release]
          /\ UNCHANGED <<prog, th, lv, ag, pl>>

\* Smoother::step_dt on sm with an explicit dt
StepDt ==
    /\ prog = "step_dt"
    /\ ncalls < MaxCalls
    /\ \E target_db \in Targets, dt \in DtValues :
          /\ ncalls' = ncalls + 1
          /\ sm' = step_dt(sm, target_db, dt)
          /\ call' = [op |-> "step_dt", target |-> target_db, dt |-> dt,
                      prev |-> sm.value_db, ret |-> sm'.value_db,
                      tau |-> step_dt_tau(sm, target_db),
                      tau_attack |-> sm.tau_attack, tau_release |-> sm.tau_release]
          /\ UNCHANGED <<prog, th, lv, now, twin, ag, pl>>

\* AdaptiveGain::compute_gain of gain.rs after e more ticks
GainCompute ==
    /\ prog = "gain"
    /\ ncalls < MaxCalls
    /\ \E cabin_db \in CabinValues, speed_kmh \in SpeedValues, e \in ElapsedTicks :
          /\ ncalls' = ncalls + 1
          /\ now' = now + e
          /\ \E r \in {G_compute_gain(ag, cabin_db, speed_kmh, now')} :
                 /\ ag' = r.self
                 /\ call' = [op |-> "compute_gain", cabin |-> cabin_db, speed |-> speed_kmh,
                             speed_noise |-> G_speed_to_noise(speed_kmh),
                             noise |-> r.noise_db, policy |-> r.policy_db,
                             target |-> r.raw_gain_db, dt |-> r.dt, elapsed |-> e,
                             prev |-> ag.last_gain_db, ret |-> r.self.last_gain_db,
                             tau |-> r.tau,
                             tau_attack |-> ag.tau_attack, tau_release |-> ag.tau_release]
          /\ UNCHANGED <<prog, th, lv, sm, twin, pl>>

\* AdaptiveGain::compute_gain of playbackSimulation.rs after e more ticks
LiveCompute ==
    /\ prog = "live_gain"
    /\ ncalls < MaxCalls
    /\ \E cabin_db \in CabinValues, speed_kmh \in SpeedValues, e \in ElapsedTicks :
          /\ ncalls' = ncalls + 1
          /\ now' = now + e
          /\ \E r \in {PS_compute_gain(ag, cabin_db, speed_kmh, now')} :
                 /\ ag' = r.self
                 /\ call' = [op |-> "compute_gain", cabin |-> cabin_db, speed |-> speed_kmh,
                             speed_noise |-> PS_speed_to_noise(speed_kmh),
                             noise |-> r.noise_db, policy |-> r.policy_db,
                             target |-> r.raw_gain_db, dt |-> r.dt, elapsed |-> e,
                             prev |-> ag.last_gain_db, ret |-> r.self.last_gain_db,
                             tau |-> r.tau,
                             tau_attack |-> ag.tau_attack, tau_release |-> ag.tau_release]
          /\ UNCHANGED <<prog, th, lv, sm, twin, pl>>

\* soft_limit applied to one sample
SoftLimit ==
    /\ prog = "soft_limit"
    /\ ncalls = 0
    /\ \E sample \in LimitSamples, threshold \in LimitThresholds :
          /\ ncalls' = 1
          /\ call' = [op |-> "soft_limit", sample |-> sample, threshold |-> threshold,
                      ret |-> soft_limit(LIM, sample, threshold)]
          /\ UNCHANGED <<prog, th, lv, now, sm, twin, ag, pl>>

\* Smoother::new(start, 0.1, 1.0) and the choice of the constant target and dt
ConvergeStart ==
    /\ prog = "converge"
    /\ call.op = "none"
    /\ \E start \in ConvergeStarts, target_db \in ConvergeTargets, dt \in ConvergeDts :
          /\ sm' = Smoother_new(start, Lit(DB, 1, 10), Lit(DB, 1, 1), 0)
          /\ call' = [op |-> "new", target |-> target_db, dt |-> dt,
                      start |-> start, prev |-> start, ret |-> start,
                      elapsed |-> 0,
                      tau |-> step_dt_tau(sm', target_db)]
          /\ UNCHANGED <<prog, th, lv, now, twin, ag, ncalls, pl>>

\* one more step_dt(target, dt) of the run, until 5 * tau have elapsed
ConvergeStep ==
    /\ prog = "converge"
    /\ call.op \in {"new", "converge"}
    /\ call.elapsed < 5 * call.tau
    /\ sm' = step_dt(sm, call.target, call.dt)
    /\ call' = [call EXCEPT !.op = "converge", !.prev = sm.value_db,
                            !.ret = sm'.value_db, !.elapsed = @ + call.dt]
    /\ UNCHANGED <<prog, th, lv, now, twin, ag, ncalls, pl>>

\* speed_to_noise applied to two speeds s1 < s2
SpeedToNoise ==
    /\ prog = "speed_to_noise"
    /\ ncalls = 0
    /\ \E s1 \in SpeedGrid :
          \E s2 \in {NextUp(s1)} \cup TestSpeeds :
             /\ s1 < s2
             /\ ncalls' = 1
             /\ call' = [op |-> "speed_to_noise", s1 |-> s1, s2 |-> s2,
                         n1 |-> speed_to_noise(s1), n2 |-> speed_to_noise(s2)]
             /\ UNCHANGED <<prog, th, lv, now, sm, twin, ag, pl>>

\* apply_gain_and_limit applied to a slice of i16 samples
ApplyGain ==
    /\ prog = "apply"
    /\ ncalls = 0
    /\ \E input \in Bursts, gain_lin \in BurstGains :
          /\ ncalls' = 1
          /\ call' = [op |-> "apply_gain_and_limit", input |-> input, gain |-> gain_lin,
                      out |-> apply_gain_and_limit(input, gain_lin)]
          /\ UNCHANGED <<prog, th, lv, now, sm, twin, ag, pl>>

\* fetch_remote_state of one of the file pipelines on a request that meets resp
FetchRemoteState ==
    /\ prog = "fetch_remote_state"
    /\ ncalls < MaxCalls
    /\ \E variant \in FetchVariants, resp \in FetchResponses :
          /\ ncalls' = ncalls + 1
          /\ call' = [op |-> "fetch_remote_state", variant |-> variant, resp |-> resp,
                      ret |-> IF variant = "audio_playback6"
                              THEN fetch_remote_state(resp)
                              ELSE P4_fetch_remote_state(resp)]
          /\ UNCHANGED <<prog, th, lv, now, sm, twin, ag, pl>>

\* main of audio_playback6: the input file must exist; the log keeps why main
\* gave up on the input and whether the output stream was open by then
P6_CheckInput ==
    /\ prog = "audio_playback6"
    /\ pl.pc = "check"
    /\ \E exists \in BOOLEAN :
          /\ pl' = IF exists THEN [pl EXCEPT !.pc = "open"]
                   ELSE [pl EXCEPT !.pc = "returned", !.result = "Err"]
          /\ call' = IF exists THEN call
                     ELSE [op |-> "input_error", kind |-> "missing",
                           stream_started |-> pl.stream_open]
          /\ UNCHANGED <<prog, th, lv, now, sm, twin, ag, ncalls>>

\* main of audio_playback6: OutputStreamBuilder::open_default_stream()?
P6_OpenStream ==
    /\ prog = "audio_playback6"
    /\ pl.pc = "open"
    /\ \E ok \in BOOLEAN :
          /\ pl' = IF ok THEN [pl EXCEPT !.pc = "decode", !.stream_open = TRUE]
                   ELSE [pl EXCEPT !.pc = "returned", !.result = "Err"]
          /\ UNCHANGED <<prog, th, lv, now, sm, twin, ag, ncalls, call>>

\* main of audio_playback6: File::open()?, Decoder::new()?, collect the
\* samples, size the chunks and construct the smoother
P6_Decode ==
    /\ prog = "audio_playback6"
    /\ pl.pc = "decode"
    /\ \E decodable \in BOOLEAN, sample_rate \in SampleRates,
          channels \in ChannelCounts, len \in 0..MaxSamples :
          /\ IF ~decodable
             THEN /\ pl' = [pl EXCEPT !.pc = "returned", !.result = "Err",
                                      !.stream_open = FALSE]
                  /\ call' = [op |-> "input_error", kind |-> "undecodable",
                              stream_started |-> pl.stream_open]
                  /\ UNCHANGED sm
             ELSE LET chunk_frames == P6_chunk_frames(sample_rate)
                      chunk_size == chunk_frames * channels
                  IN  /\ pl' = [pl EXCEPT !.pc = "loop", !.sample_rate = sample_rate,
                                          !.channels = channels,
                                          !.samples_f32 = Track(len),
                                          !.chunk_size = chunk_size,
                                          !.total_chunks = P6_total_chunks(len, chunk_size),
                                          !.i = 0, !.t = 0, !.dt = P6_dt(sample_rate)]
                      /\ sm' = Smoother_new(0, Lit(DB, 1, 10), Lit(DB, 1, 1), now)
                      /\ UNCHANGED call
          /\ UNCHANGED <<prog, th, lv, now, twin, ag, ncalls>>

\* one iteration of the chunk loop of audio_playback6: the request to the
\* remote UI meets resp (manual mode) and takes lat ticks; the log keeps the
\* last successful fetch of the chunks before (prior)
P6_Chunk ==
    /\ prog = "audio_playback6"
    /\ pl.pc = "loop"
    /\ pl.i < pl.total_chunks
    /\ \E resp \in Responses, lat \in Latencies :
          /\ LET fetched == IF pl.auto_mode THEN None ELSE fetch_remote_state(resp)
                 cabin_db == IF fetched.some THEN fetched.cabin_db
                             ELSE mock_get_cabin_noise_db(pl.t)
                 speed_kmh == IF fetched.some THEN fetched.speed_kmh
                              ELSE mock_get_speed_kmh(pl.t)
                 speed_noise_db == speed_to_noise(speed_kmh)
                 noise_db == P6_noise_db(cabin_db, speed_kmh)
                 gain_db_raw == P6_gain_db_raw(noise_db)
                 instant == now + lat
                 stepped == step(sm, gain_db_raw, instant)
                 gain_db == stepped.value_db
                 gain_lin == db_to_lin(gain_db)
                 start == pl.i * pl.chunk_size
                 end == FMin((pl.i + 1) * pl.chunk_size, Len(pl.samples_f32))
                 chunk == [k \in 1..(end - start) |->
                              P6_sample(Slice(pl.samples_f32, start, end)[k], gain_lin)]
             IN  /\ sm' = stepped
                 /\ call' = [op |-> "chunk", cabin |-> cabin_db, speed |-> speed_kmh,
                             speed_noise |-> speed_noise_db, noise |-> noise_db,
                             policy |-> P6_policy_db(noise_db), target |-> gain_db_raw,
                             dt |-> as_secs_f32(instant - sm.last_update),
                             prev |-> sm.value_db, ret |-> gain_db,
                             tau |-> step_tau(sm, gain_db_raw),
                             tau_attack |-> sm.tau_attack, tau_release |-> sm.tau_release,
                             fetched |-> fetched, gain_lin |-> gain_lin,
                             prior |-> IF call.op # "chunk" THEN None
                                       ELSE IF call.fetched.some THEN call.fetched
                                       ELSE call.prior,
                             chunk |-> pl.i, sunk |-> start < end,
                             frames |-> (end - start) \div pl.channels,
                             t_before |-> pl.t,
                             t_after |-> IF start < end THEN FAdd(DB, pl.t, pl.dt)
                                         ELSE pl.t,
                             slept |-> IF start < end THEN from_secs_f32(pl.dt)
                                       ELSE 0]
                 /\ IF start >= end
                    THEN /\ pl' = [pl EXCEPT !.pc = "drain", !.steps = @ + 1]
                         /\ now' = instant
                    ELSE /\ pl' = [pl EXCEPT !.sink = Append(@, chunk),
                                             !.ranges = Append(@, <<start, end>>),
                                             !.steps = @ + 1,
                                             !.t = FAdd(DB, @, pl.dt),
                                             !.i = @ + 1]
                         /\ now' = instant + from_secs_f32(pl.dt)
          /\ UNCHANGED <<prog, th, lv, twin, ag, ncalls>>

\* main of audio_playback6: the loop is over, sink.sleep_until_end(), Ok(())
P6_Finish ==
    /\ prog = "audio_playback6"
    /\ \/ pl.pc = "loop" /\ pl.i >= pl.total_chunks
       \/ pl.pc = "drain"
    /\ pl' = [pl EXCEPT !.pc = "returned", !.result = "Ok", !.stream_open = FALSE]
    /\ UNCHANGED <<prog, th, lv, now, sm, twin, ag, ncalls, call>>

\* main of audio_playback4 and audio_playback5 run without --auto: the input
\* file must exist, open_default_stream()?, Smoother::new, File::open()?,
\* Decoder::new()?
P4_Start ==
    /\ prog \in {"audio_playback4", "audio_playback5"}
    /\ pl.pc = "start"
    /\ \E exists \in BOOLEAN, stream_ok \in BOOLEAN, decodable \in BOOLEAN,
          len \in 1..MaxSamples :
          /\ IF exists /\ stream_ok /\ decodable
             THEN /\ pl' = [pl EXCEPT !.pc = "manual", !.stream_open = TRUE,
                                      !.samples_f32 = Track(len)]
                  /\ sm' = Smoother_new(0, Lit(DB, 1, 10), Lit(DB, 1, 1), now)
             ELSE /\ pl' = [pl EXCEPT !.pc = "returned", !.result = "Err"]
                  /\ UNCHANGED sm
          /\ UNCHANGED <<prog, th, lv, now, twin, ag, ncalls, call>>

\* the manual mode of audio_playback4 and audio_playback5: one fetch, which
\* meets resp and takes lat ticks, one step of the smoother, and the whole
\* source amplified by the gain and played to its end
P4_Manual ==
    /\ prog \in {"audio_playback4", "audio_playback5"}
    /\ pl.pc = "manual"
    /\ \E resp \in Responses, lat \in Latencies :
          LET fetched == P4_fetch_remote_state(resp)
              fatal == prog = "audio_playback5" /\ ~fetched.some
              used == IF fetched.some THEN fetched ELSE P4_fallback
              gain_db_raw == P4_gain_db_raw(used.cabin_db, used.speed_kmh)
              stepped == step(sm, gain_db_raw, now + lat)
              gain_lin == db_to_lin(stepped.value_db)
          IN  /\ now' = now + lat
              /\ IF fatal
                 THEN /\ pl' = [pl EXCEPT !.pc = "returned", !.result = "Err",
                                          !.stream_open = FALSE]
                      /\ call' = [op |-> "manual", fetched |-> fetched, fatal |-> TRUE]
                      /\ UNCHANGED sm
                 ELSE /\ pl' = [pl EXCEPT !.pc = "returned", !.result = "Ok",
                                          !.stream_open = FALSE,
                                          !.sink = <<[k \in 1..Len(pl.samples_f32) |->
                                                       FMul(DB, pl.samples_f32[k], gain_lin)]>>]
                      /\ call' = [op |-> "manual", fetched |-> fetched, fatal |-> FALSE,
                                  cabin |-> used.cabin_db, speed |-> used.speed_kmh,
                                  target |-> gain_db_raw, ret |-> stepped.value_db,
                                  gain_lin |-> gain_lin]
                      /\ sm' = stepped
          /\ UNCHANGED <<prog, th, lv, twin, ag, ncalls>>

\* main of audio_playback3 run with --auto: the input file must exist,
\* open_default_stream()?, File::open()?, Decoder::new()?, collect the samples
\* and construct the smoother
P3_Start ==
    /\ prog = "audio_playback3"
    /\ pl.pc = "start3"
    /\ \E ok \in BOOLEAN, len \in P3_Lengths :
          /\ IF ok
             THEN /\ pl' = [pl EXCEPT !.pc = "loop", !.auto_mode = TRUE,
                                      !.stream_open = TRUE,
                                      !.sample_rate = SAMPLE_RATE, !.channels = 1,
                                      !.samples_f32 = Track(len),
                                      !.chunk_size = P3_chunk_size,
                                      !.total_chunks =
                                          P6_total_chunks(len, P3_chunk_size),
                                      !.i = 0, !.t = 0, !.dt = P3_dt]
                  /\ sm' = Smoother_new(0, Lit(DB, 1, 10), Lit(DB, 1, 1), now)
             ELSE /\ pl' = [pl EXCEPT !.pc = "returned", !.result = "Err"]
                  /\ UNCHANGED sm
          /\ UNCHANGED <<prog, th, lv, now, twin, ag, ncalls, call>>

\* one iteration of the chunk loop of audio_playback3
P3_Chunk ==
    /\ prog = "audio_playback3"
    /\ pl.pc = "loop"
    /\ pl.i < pl.total_chunks
    /\ LET cabin_db == mock_get_cabin_noise_db(pl.t)
           speed == mock_get_speed_kmh(pl.t)
           gain_db_raw == P4_gain_db_raw(cabin_db, speed)
           stepped == step(sm, gain_db_raw, now)
           gain_lin == db_to_lin(stepped.value_db)
           start == pl.i * pl.chunk_size
           end == FMin((pl.i + 1) * pl.chunk_size, Len(pl.samples_f32))
           chunk == [k \in 1..(end - start) |->
                        P6_sample(pl.samples_f32[start + k], gain_lin)]
       IN  /\ sm' = stepped
           /\ pl' = [pl EXCEPT !.sink = Append(@, chunk),
                               !.t = FAdd(DB, @, pl.dt),
                               !.i = @ + 1]
           /\ now' = now + from_secs_f32(pl.dt)
           /\ call' = [op |-> "chunk3", chunk |-> pl.i, frames |-> end - start,
                       t_before |-> pl.t, t_after |-> pl'.t,
                       slept |-> now' - now]
    /\ UNCHANGED <<prog, th, lv, twin, ag, ncalls>>

\* main of audio_playback3: the loop is over, sink.sleep_until_end(), Ok(())
P3_Finish ==
    /\ prog = "audio_playback3"
    /\ pl.pc = "loop" /\ pl.i >= pl.total_chunks
    /\ pl' = [pl EXCEPT !.pc = "returned", !.result = "Ok", !.stream_open = FALSE]
    /\ UNCHANGED <<prog, th, lv, now, sm, twin, ag, ncalls, call>>

\* main of playbackSimulation: read_wav_to_queue; a failure is printed and
\* main goes on
PS_Load ==
    /\ prog = "playbackSimulation"
    /\ lv.main_pc = "load"
    /\ \E ok \in BOOLEAN, len \in 0..MaxSamples :
          /\ lv' = IF ok
                   THEN [lv EXCEPT !.main_pc = "spawn_poller",
                                   !.playback_queue = Track(len)]
                   ELSE [lv EXCEPT !.main_pc = "spawn_poller", !.load_failed = TRUE]
          /\ UNCHANGED <<prog, th, now, sm, twin, ag, ncalls, call, pl>>

\* main of playbackSimulation: spawn the speed poller thread
PS_SpawnPoller ==
    /\ prog = "playbackSimulation"
    /\ lv.main_pc = "spawn_poller"
    /\ lv' = [lv EXCEPT !.main_pc = "devices", !.poller = "poll"]
    /\ UNCHANGED <<prog, th, now, sm, twin, ag, ncalls, call, pl>>

\* main of playbackSimulation: the default devices (expect) and their
\* configurations (?)
PS_Devices ==
    /\ prog = "playbackSimulation"
    /\ lv.main_pc = "devices"
    /\ \E devices \in BOOLEAN, configs \in BOOLEAN, channels \in ChannelCounts :
          /\ lv' = IF ~devices
                   THEN [lv EXCEPT !.main_pc = "returned", !.result = "panic"]
                   ELSE IF ~configs
                   THEN [lv EXCEPT !.main_pc = "returned", !.result = "Err"]
                   ELSE [lv EXCEPT !.main_pc = "output", !.channels_out = channels]
          /\ UNCHANGED <<prog, th, now, sm, twin, ag, ncalls, call, pl>>

\* main of playbackSimulation: build_output_stream()?, stream.play()?
PS_Output ==
    /\ prog = "playbackSimulation"
    /\ lv.main_pc = "output"
    /\ \E ok \in BOOLEAN :
          /\ lv' = IF ok THEN [lv EXCEPT !.main_pc = "input", !.out_stream = "playing"]
                   ELSE [lv EXCEPT !.main_pc = "returned", !.result = "Err"]
          /\ UNCHANGED <<prog, th, now, sm, twin, ag, ncalls, call, pl>>

\* main of playbackSimulation: the input stream that fills controller_queue
PS_Input ==
    /\ prog = "playbackSimulation"
    /\ lv.main_pc = "input"
    /\ \E ok \in BOOLEAN :
          /\ lv' = IF ok THEN [lv EXCEPT !.main_pc = "workers", !.in_stream = "playing"]
                   ELSE [lv EXCEPT !.main_pc = "returned", !.result = "Err"]
          /\ UNCHANGED <<prog, th, now, sm, twin, ag, ncalls, call, pl>>

\* main of playbackSimulation: spawn the monitor and the controller, then
\* sleep for ever
PS_SpawnWorkers ==
    /\ prog = "playbackSimulation"
    /\ lv.main_pc = "workers"
    /\ lv' = [lv EXCEPT !.main_pc = "keep_alive", !.monitor = TRUE,
                        !.controller = TRUE]
    /\ UNCHANGED <<prog, th, now, sm, twin, ag, ncalls, call, pl>>

\* the speed poller thread: one iteration of its loop, whose request meets
\* resp, with the sleep of poll_period_ms that ends it
PS_Poll ==
    /\ prog = "playbackSimulation"
    /\ lv.result = "running"
    /\ lv.poller = "poll"
    /\ \E resp \in SpeedResponses :
          /\ lv' = [lv EXCEPT !.speed_shared = PS_poll(@, resp)]
          /\ call' = [op |-> "poll", resp |-> resp, speed_before |-> lv.speed_shared,
                      speed_after |-> lv'.speed_shared]
          /\ UNCHANGED <<prog, th, now, sm, twin, ag, ncalls, pl>>

\* the controller thread: one iteration that finds microphone samples of
\* level cabin_db, e ticks after the last one
PS_Controller ==
    /\ prog = "playbackSimulation"
    /\ lv.result = "running"
    /\ lv.controller
    /\ lv.in_stream = "playing"
    /\ lv.ticks < MaxTicks
    /\ \E cabin_db \in MicValues, e \in ControllerTicks :
          /\ now' = now + e
          /\ \E r \in {PS_compute_gain(ag, cabin_db, lv.speed_shared, now')} :
                 /\ ag' = r.self
                 /\ lv' = [lv EXCEPT !.gain_lin_shared = r.gain_lin, !.ticks = @ + 1]
                 /\ call' = [op |-> "controller", cabin |-> cabin_db,
                             speed |-> lv.speed_shared, target |-> r.raw_gain_db,
                             ret |-> r.self.last_gain_db, gain_lin |-> r.gain_lin]
          /\ UNCHANGED <<prog, th, sm, twin, ncalls, pl>>

\* the output callback on a buffer of nframes frames: lock the queue, read
\* the gain, fill the frames and release the queue
PS_Callback ==
    /\ prog = "playbackSimulation"
    /\ lv.result = "running"
    /\ lv.out_stream = "playing"
    /\ \E nframes \in 1..MaxFrames :
          /\ LET r == PS_output_callback(lv.playback_queue, lv.gain_lin_shared,
                                         nframes, lv.channels_out)
             IN  /\ lv' = [lv EXCEPT !.playback_queue = r.q,
                                     !.played_counter = @ + r.played]
                 /\ call' = [op |-> "output_callback", nframes |-> nframes,
                             queue |-> lv.playback_queue, gain |-> lv.gain_lin_shared,
                             data |-> r.data, queue_after |-> r.q,
                             played_before |-> lv.played_counter,
                             played_after |-> lv'.played_counter]
          /\ UNCHANGED <<prog, th, now, sm, twin, ag, ncalls, pl>>

\* speed poller thread: client.get(&url).send() starts
T_PollSend ==
    /\ prog = "playbackSimulation_threads"
    /\ th.poller = "sleep"
    /\ th' = [th EXCEPT !.poller = "io"]
    /\ UNCHANGED <<prog, now, sm, twin, ag, ncalls, call, pl, lv>>

\* speed poller thread: the request meets resp; send() and resp.json() return
T_PollRecv ==
    /\ prog = "playbackSimulation_threads"
    /\ th.poller = "io"
    /\ \E resp \in SpeedResponses :
          th' = IF ~resp.transport_ok \/ ~resp.json_ok \/ resp.speed.kind # "number"
                THEN [th EXCEPT !.poller = "sleep"]
                ELSE [th EXCEPT !.poller = "lock_speed", !.pending = resp.speed.val]
    /\ UNCHANGED <<prog, now, sm, twin, ag, ncalls, call, pl, lv>>

\* speed poller thread: speed_s.lock()
T_PollAcquire ==
    /\ prog = "playbackSimulation_threads"
    /\ th.poller = "lock_speed"
    /\ th.locks["speed"] = "free"
    /\ th' = [th EXCEPT !.poller = "store", !.locks = Lock(@, "speed", "poller")]
    /\ UNCHANGED <<prog, now, sm, twin, ag, ncalls, call, pl, lv>>

\* speed poller thread: *speed_lock = s as f32, the guard is dropped and the
\* thread sleeps
T_PollStore ==
    /\ prog = "playbackSimulation_threads"
    /\ th.poller = "store"
    /\ lv' = [lv EXCEPT !.speed_shared = th.pending]
    /\ th' = [th EXCEPT !.poller = "sleep", !.pending = 0,
                        !.locks = Unlock(@, "speed")]
    /\ UNCHANGED <<prog, now, sm, twin, ag, ncalls, call, pl>>

\* controller thread: lock() of controller_queue, speed_shared, adaptive_gain
\* and gain_lin_shared, one after the other
T_CtrlAcquire ==
    /\ prog = "playbackSimulation_threads"
    /\ th.controller \in {"lock_ctrl", "lock_speed", "lock_adaptive", "lock_gain"}
    /\ th.controller = "lock_ctrl" => lv.ticks < MaxTicks
    /\ th.locks[LockAsked(th.controller)] = "free"
    /\ th' = [th EXCEPT !.controller =
                            CASE th.controller = "lock_ctrl" -> "clone"
                              [] th.controller = "lock_speed" -> "read_speed"
                              [] th.controller = "lock_adaptive" -> "compute"
                              [] OTHER -> "publish",
                        !.locks = Lock(@, LockAsked(th.controller), "controller")]
    /\ UNCHANGED <<prog, now, sm, twin, ag, ncalls, call, pl, lv>>

\* controller thread: clone the microphone buffer; an empty one means sleep
\* and continue
T_CtrlClone ==
    /\ prog = "playbackSimulation_threads"
    /\ th.controller = "clone"
    /\ th' = IF th.mic = <<>>
             THEN [th EXCEPT !.controller = "lock_ctrl", !.locks = Unlock(@, "ctrl")]
             ELSE [th EXCEPT !.controller = "lock_speed", !.c_cabin = th.mic[1],
                             !.locks = Unlock(@, "ctrl")]
    /\ UNCHANGED <<prog, now, sm, twin, ag, ncalls, call, pl, lv>>

\* controller thread: read latest speed
T_CtrlReadSpeed ==
    /\ prog = "playbackSimulation_threads"
    /\ th.controller = "read_speed"
    /\ th' = [th EXCEPT !.controller = "lock_adaptive", !.c_speed = lv.speed_shared,
                        !.locks = Unlock(@, "speed")]
    /\ UNCHANGED <<prog, now, sm, twin, ag, ncalls, call, pl, lv>>

\* controller thread: ag.compute_gain(cabin_db, speed_kmh), e ticks after the
\* last one
T_CtrlCompute ==
    /\ prog = "playbackSimulation_threads"
    /\ th.controller = "compute"
    /\ \E e \in ControllerPeriod :
          /\ now' = now + e
          /\ \E r \in {PS_compute_gain(ag, th.c_cabin, th.c_speed, now')} :
                 /\ ag' = r.self
                 /\ th' = [th EXCEPT !.controller = "lock_gain",
                                     !.c_gain_lin = r.gain_lin,
                                     !.c_cabin = 0, !.c_speed = 0,
                                     !.locks = Unlock(@, "adaptive")]
    /\ lv' = [lv EXCEPT !.ticks = @ + 1]
    /\ UNCHANGED <<prog, sm, twin, ncalls, call, pl>>

\* controller thread: update shared gain_lin for the output callback, sleep
T_CtrlPublish ==
    /\ prog = "playbackSimulation_threads"
    /\ th.controller = "publish"
    /\ lv' = [lv EXCEPT !.gain_lin_shared = th.c_gain_lin]
    /\ th' = [th EXCEPT !.controller = "lock_ctrl", !.c_gain_lin = 0,
                        !.locks = Unlock(@, "gain")]
    /\ UNCHANGED <<prog, now, sm, twin, ag, ncalls, call, pl>>

\* monitor thread: lock() of playback_queue, then of gain_lin_shared
T_MonAcquire ==
    /\ prog = "playbackSimulation_threads"
    /\ th.monitor \in {"lock_queue", "lock_gain"}
    /\ th.locks[LockAsked(th.monitor)] = "free"
    /\ th' = [th EXCEPT !.monitor = IF th.monitor = "lock_queue" THEN "len" ELSE "read",
                        !.locks = Lock(@, LockAsked(th.monitor), "monitor")]
    /\ UNCHANGED <<prog, now, sm, twin, ag, ncalls, call, pl, lv>>

\* a monitor whose queue guard lives until the end of the loop body
T_MonLen_guard_kept ==
    /\ prog = "playbackSimulation_threads"
    /\ th.monitor = "len"
    /\ th' = [th EXCEPT !.monitor = "lock_gain"]
    /\ UNCHANGED <<prog, now, sm, twin, ag, ncalls, call, pl, lv>>

\* monitor thread: q.len()
T_MonLen ==
    /\ prog = "playbackSimulation_threads"
    /\ th.monitor = "len"
    /\ th' = [th EXCEPT !.monitor = "lock_gain", !.locks = Unlock(@, "queue")]
    /\ UNCHANGED <<prog, now, sm, twin, ag, ncalls, call, pl, lv>>

\* monitor thread: read the gain, load the counter, print and sleep
T_MonRead ==
    /\ prog = "playbackSimulation_threads"
    /\ th.monitor = "read"
    /\ th' = [th EXCEPT !.monitor = "lock_queue", !.locks = Unlock(@, "gain")]
    /\ UNCHANGED <<prog, now, sm, twin, ag, ncalls, call, pl, lv>>

\* input callback: ctrl_q.lock()
T_InAcquire ==
    /\ prog = "playbackSimulation_threads"
    /\ th.input = "lock_ctrl"
    /\ th.locks["ctrl"] = "free"
    /\ th' = [th EXCEPT !.input = "push", !.locks = Lock(@, "ctrl", "input")]
    /\ UNCHANGED <<prog, now, sm, twin, ag, ncalls, call, pl, lv>>

\* input callback: clear the buffer and push the frames; the buffer is kept
\* as its level in dB (rms_to_db)
T_InPush ==
    /\ prog = "playbackSimulation_threads"
    /\ th.input = "push"
    /\ \E level \in QuietMic :
          th' = [th EXCEPT !.input = "lock_ctrl", !.mic = <<level>>,
                           !.locks = Unlock(@, "ctrl")]
    /\ UNCHANGED <<prog, now, sm, twin, ag, ncalls, call, pl, lv>>

\* output callback: playback_queue.lock(), then gain_ref.lock() with the
\* queue still held
T_OutAcquire ==
    /\ prog = "playbackSimulation_threads"
    /\ th.output \in {"lock_queue", "lock_gain"}
    /\ th.locks[LockAsked(th.output)] = "free"
    /\ th' = [th EXCEPT !.output = IF th.output = "lock_queue" THEN "lock_gain"
                                   ELSE "read_gain",
                        !.locks = Lock(@, LockAsked(th.output), "output")]
    /\ UNCHANGED <<prog, now, sm, twin, ag, ncalls, call, pl, lv>>

\* output callback: let gain = *g
T_OutReadGain ==
    /\ prog = "playbackSimulation_threads"
    /\ th.output = "read_gain"
    /\ th' = [th EXCEPT !.output = "frames", !.o_gain = lv.gain_lin_shared,
                        !.locks = Unlock(@, "gain")]
    /\ UNCHANGED <<prog, now, sm, twin, ag, ncalls, call, pl, lv>>

\* output callback: fill the nframes frames of the buffer and return
T_OutFrames ==
    /\ prog = "playbackSimulation_threads"
    /\ th.output = "frames"
    /\ \E nframes \in {MaxFrames} :
          lv' = [lv EXCEPT !.playback_queue = PS_queue_left(@, nframes),
                           !.played_counter =
                               @ + PS_played(lv.playback_queue, nframes,
                                             lv.channels_out)]
    /\ th' = [th EXCEPT !.output = "lock_queue", !.o_gain = 0,
                        !.locks = Unlock(@, "queue")]
    /\ UNCHANGED <<prog, now, sm, twin, ag, ncalls, call, pl>>

Next ==
    \/ Step
    \/ StepDt
    \/ GainCompute
    \/ LiveCompute
    \/ SoftLimit
    \/ ApplyGain
    \/ SpeedToNoise
    \/ ConvergeStart
    \/ ConvergeStep
    \/ FetchRemoteState
    \/ P6_CheckInput
    \/ P6_OpenStream
    \/ P6_Decode
    \/ P6_Chunk
    \/ P6_Finish
    \/ P3_Start
    \/ P3_Chunk
    \/ P3_Finish
    \/ P4_Start
    \/ P4_Manual
    \/ PS_Load
    \/ PS_SpawnPoller
    \/ PS_Devices
    \/ PS_Output
    \/ PS_Input
    \/ PS_SpawnWorkers
    \/ PS_Poll
    \/ PS_Controller
    \/ PS_Callback
    \/ T_PollSend
    \/ T_PollRecv
    \/ T_PollAcquire
    \/ T_PollStore
    \/ T_CtrlAcquire
    \/ T_CtrlClone
    \/ T_CtrlReadSpeed
    \/ T_CtrlCompute
    \/ T_CtrlPublish
    \/ T_MonAcquire
    \/ T_MonLen
    \/ T_MonRead
    \/ T_InAcquire
    \/ T_InPush
    \/ T_OutAcquire
    \/ T_OutReadGain
    \/ T_OutFrames

Spec == Init /\ [][Next]_vars

\* playbackSimulation alone, with the scheduling it can count on: main and
\* the poller thread keep being scheduled by the operating system. Nothing is
\* assumed about how often the audio host calls the output callback or the
\* controller finds microphone samples.
LiveInit == Init /\ prog = "playbackSimulation"

LiveNext ==
    \/ PS_Load
    \/ PS_SpawnPoller
    \/ PS_Devices
    \/ PS_Output
    \/ PS_Input
    \/ PS_SpawnWorkers
    \/ PS_Poll
    \/ PS_Controller
    \/ PS_Callback

LiveMain ==
    PS_Load \/ PS_SpawnPoller \/ PS_Devices \/ PS_Output \/ PS_Input \/ PS_SpawnWorkers

LiveSpec ==
    /\ LiveInit
    /\ [][LiveNext]_vars
    /\ WF_vars(LiveMain)
    /\ WF_vars(PS_Poll)

\* --------------------------------------------------------- properties
IsSmootherCall == call.op \in {"step", "step_dt", "compute_gain", "chunk"}

\* the smoothed gain of the running program, and the clamp range of the raw
\* gain its callers hand to the smoother
current_db == IF prog \in {"gain", "live_gain"} THEN ag.last_gain_db ELSE sm.value_db
clamp_max ==
    IF prog = "gain" THEN Lit(DB, 12, 1)
    ELSE IF prog = "live_gain" THEN Lit(DB, 18, 1)
    ELSE Lit(DB, 24, 1)
clamp_min == -clamp_max

\* C1: starting from 0 dB, after any sequence of per-frame updates whose raw
\* gain lies in [clamp_min, clamp_max], the smoothed gain stays within
\* [clamp_min, clamp_max].
C1_SmoothedGainWithinClamp ==
    prog \in {"step", "step_dt", "live_gain", "audio_playback6"}
        => clamp_min <= current_db /\ current_db <= clamp_max

\* C2: for dt > 0 step_dt never overshoots: the new value lies between the
\* previous value and the target, and is strictly closer to the target when
\* the target differs from the previous value.
C2_StepDtNeverOvershoots ==
    (call.op = "step_dt" /\ call.dt > 0)
        => /\ FMin(call.prev, call.target) <= call.ret
           /\ call.ret <= FMax(call.prev, call.target)
           /\ call.target # call.prev
                => Abs(call.target - call.ret) < Abs(call.target - call.prev)

\* C3: with dt <= 0, step and step_dt return the current value and leave
\* value_db unchanged.
C3_NonPositiveDtIsNoOp ==
    (call.op \in {"step", "step_dt"} /\ call.dt <= 0)
        => call.ret = call.prev /\ sm.value_db = call.prev

C3_Witness ==
    /\ call.op = "step_dt" /\ call.dt < 0 /\ call.target # call.prev
    /\ call.prev # 0 /\ sm.value_db = call.prev

\* C4: every smoother variant uses tau_attack exactly when the target is
\* greater than or equal to the current value, and tau_release exactly when
\* the target is below it; a target equal to the current value selects
\* tau_attack.
C4_AttackIffTargetNotBelow ==
    IsSmootherCall
        => /\ call.target >= call.prev => call.tau = call.tau_attack
           /\ call.target < call.prev => call.tau = call.tau_release

\* C4 (amended): Smoother::step and Smoother::step_dt select tau_attack
\* exactly when the target is greater than or equal to the current value;
\* compute_gain of gain.rs and of playbackSimulation.rs select tau_attack
\* exactly when the target is strictly greater, so a target equal to the last
\* gain selects tau_release there (and the gain does not move either way).
C4_Amended ==
    /\ call.op \in {"step", "step_dt", "chunk"}
         => IF call.target >= call.prev THEN call.tau = call.tau_attack
            ELSE call.tau = call.tau_release
    /\ call.op = "compute_gain"
         => /\ IF call.target > call.prev THEN call.tau = call.tau_attack
               ELSE call.tau = call.tau_release
            /\ call.target = call.prev => call.ret = call.prev

C4_Witness ==
    /\ prog = "gain" /\ call.op = "compute_gain" /\ ncalls > 1
    /\ call.target = call.prev /\ call.dt > 0
    /\ call.tau = call.tau_release /\ call.tau_release # call.tau_attack

\* C5: step (wall clock) and step_dt (explicit dt) are equivalent: fed the
\* same targets and the dt values step measured, two smoothers with the same
\* initial value and time constants hold the same value after every call.
C5_StepEquivalentToStepDt ==
    prog = "step" => sm.value_db = twin.value_db

C5_Witness ==
    /\ prog = "step" /\ ncalls = MaxCalls
    /\ call.ret # call.prev /\ call.ret # call.target
    /\ sm.value_db = twin.value_db /\ sm.value_db # 0

IsGainCall == call.op \in {"compute_gain", "chunk"}

\* C6: the raw gain handed to the smoother lies within the variant's clamp
\* range (+-24 dB in the file pipeline, +-12 dB in gain.rs, +-18 dB in
\* playbackSimulation.rs) and equals the unclamped policy value whenever that
\* value is already inside the range.
C6_RawGainClamped ==
    IsGainCall
        => /\ clamp_min <= call.target /\ call.target <= clamp_max
           /\ (clamp_min <= call.policy /\ call.policy <= clamp_max)
                => call.target = call.policy

C6_Witness ==
    /\ prog = "live_gain" /\ call.op = "compute_gain"
    /\ call.policy > Lit(DB, 24, 1) /\ call.target = Lit(DB, 18, 1)

\* C7: the noise estimate used by the gain mapping is the larger of the cabin
\* level and speed_to_noise(speed): it is one of the two and below neither.
C7_NoiseIsMaxOfCabinAndSpeed ==
    IsGainCall
        => /\ call.noise \in {call.cabin, call.speed_noise}
           /\ call.noise >= call.cabin
           /\ call.noise >= call.speed_noise

C7_Witness ==
    /\ prog = "gain" /\ call.op = "compute_gain"
    /\ call.speed_noise > call.cabin /\ call.noise = call.speed_noise

\* C8: for |s| <= threshold, |s| = threshold included, soft_limit returns s
\* exactly.
C8_BelowThresholdPassThrough ==
    (call.op = "soft_limit" /\ Abs(call.sample) <= call.threshold)
        => call.ret = call.sample

C8_Witness ==
    /\ call.op = "soft_limit" /\ call.sample < 0
    /\ Abs(call.sample) = call.threshold /\ call.ret = call.sample

\* C9: for threshold >= 0 and |s| > threshold, the magnitude of
\* soft_limit(s, threshold) is strictly greater than threshold and strictly
\* less than |s|, and the output has the sign of s.
C9_StrictlyBetween ==
    (call.op = "soft_limit" /\ call.threshold >= 0
        /\ Abs(call.sample) > call.threshold)
        => /\ Abs(call.ret) > call.threshold
           /\ Abs(call.ret) < Abs(call.sample)
           /\ (call.ret > 0) = (call.sample > 0)
           /\ (call.ret < 0) = (call.sample < 0)

\* C9 (amended): for threshold >= 0 and |s| > threshold, the output has the
\* sign of s, its magnitude is at least threshold, and it exceeds |s| by at
\* most one unit in the last place of |s|.
C9_Amended ==
    (call.op = "soft_limit" /\ call.threshold >= 0
        /\ Abs(call.sample) > call.threshold)
        => /\ Abs(call.ret) >= call.threshold
           /\ Abs(call.ret) <= Abs(call.sample) + Ulp(LIM, Abs(call.sample))
           /\ (call.ret > 0) = (call.sample > 0)
           /\ (call.ret < 0) = (call.sample < 0)

C9_Witness ==
    /\ call.op = "soft_limit" /\ call.sample < 0
    /\ call.threshold > 0 /\ Abs(call.sample) > call.threshold
    /\ Abs(call.ret) > Abs(call.sample)

C11_OutputPerSampleWithinRange ==
    call.op = "apply_gain_and_limit"
        => /\ Len(call.out) = Len(call.input)
           /\ \A k \in 1..Len(call.input) :
                /\ call.out[k] = apply_gain_and_limit(<<call.input[k]>>, call.gain)[1]
                /\ -I16_MAX <= call.out[k] /\ call.out[k] <= I16_MAX

C11_Witness ==
    /\ call.op = "apply_gain_and_limit" /\ call.gain = Lit(PCM, 2, 1)
    /\ Len(call.input) = 2
    /\ call.input[1] = I16_MIN /\ call.out[1] < -16384 /\ call.out[1] >= -I16_MAX
    /\ call.input[2] = 100 /\ call.out[2] = 200

\* C12: in the live output callback every sample handed to the audio sink is
\* within [-1.0, 1.0], for every queued sample in [-1, 1] and every gain the
\* controller can publish.
C12_CallbackOutputWithinUnitRange ==
    call.op = "output_callback"
        => \A k \in 1..Len(call.data) :
               /\ FNeg(One(DB)) <= call.data[k]
               /\ call.data[k] <= One(DB)

\* a response that fetch_remote_state must turn into None: the transport
\* failed, the status is not a success, the body is not JSON, or one of the
\* keys cabin_db and speed_kmh is absent or not a number
FetchFails(resp) ==
    \/ ~resp.transport_ok
    \/ ~resp.status_success
    \/ ~resp.json_ok
    \/ resp.cabin_db.kind # "number"
    \/ resp.speed_kmh.kind # "number"

\* C13: fetch_remote_state returns None, and never an error or a panic, on a
\* transport failure, a non-success HTTP status, a body that is not valid JSON
\* and a recognized key that is absent or non-numeric.
C13_FetchFailureYieldsNone ==
    call.op = "fetch_remote_state" /\ FetchFails(call.resp) => call.ret = None

C13_Witness ==
    /\ call.op = "fetch_remote_state" /\ call.variant = "audio_playback6"
    /\ call.resp.transport_ok /\ ~call.resp.status_success /\ call.resp.json_ok
    /\ call.resp.cabin_db.kind = "number" /\ call.resp.speed_kmh.kind = "number"
    /\ call.ret = None

\* C14: a successful response whose payload has at least one of cabin_db and
\* speed_kmh as a number is accepted as an update that uses the field present.
C14_PartialPayloadAccepted ==
    /\ call.op = "fetch_remote_state"
    /\ call.resp.transport_ok /\ call.resp.status_success /\ call.resp.json_ok
    /\ \/ call.resp.cabin_db.kind = "number"
       \/ call.resp.speed_kmh.kind = "number"
    => /\ call.ret.some
       /\ call.resp.cabin_db.kind = "number" => call.ret.cabin_db = call.resp.cabin_db.val
       /\ call.resp.speed_kmh.kind = "number"
              => call.ret.speed_kmh = call.resp.speed_kmh.val

\* C15: in the remote-driven chunk loop, when the fetch for a chunk yields no
\* update, the cabin level and the speed used for the chunk are those of the
\* most recent successful fetch, and the chunk is still processed.
C15_FailedFetchUsesPriorSnapshot ==
    /\ call.op = "chunk" /\ ~pl.auto_mode
    /\ ~call.fetched.some /\ call.prior.some
    => /\ call.cabin = call.prior.cabin_db
       /\ call.speed = call.prior.speed_kmh
       /\ call.sunk

\* a poll that brings no speed: the transport failed, the body is not JSON, or
\* the JSON has no numeric speed
PollFails(resp) ==
    \/ ~resp.transport_ok
    \/ ~resp.json_ok
    \/ resp.speed.kind # "number"

\* C16: a poll of the live-mode speed poller that fails in transport, returns
\* a body that is not JSON, or returns JSON without a numeric speed leaves the
\* shared speed unchanged, and the poller goes on to its next poll.
C16_FailedPollKeepsSpeed ==
    call.op = "poll" /\ PollFails(call.resp)
        => /\ call.speed_after = call.speed_before
           /\ lv.poller = "poll"

C16_Witness ==
    /\ call.op = "poll" /\ ~call.resp.transport_ok
    /\ call.speed_before = Lit(DB, 120, 1) /\ call.speed_after = Lit(DB, 120, 1)
    /\ lv.speed_shared = Lit(DB, 120, 1) /\ lv.poller = "poll"

\* C17: a response of the speed endpoint with a non-success HTTP status never
\* updates the shared speed, even when its body is JSON with a numeric speed.
C17_ErrorStatusKeepsSpeed ==
    call.op = "poll" /\ call.resp.transport_ok /\ ~call.resp.status_success
        => call.speed_after = call.speed_before

\* C18: in every playback variant that consults the remote sensor feed a
\* failed fetch is never fatal: the program does not return an error because
\* of it and goes on to play audio with a fallback reading.
C18_FailedFetchNeverFatal ==
    /\ \/ call.op = "manual"
       \/ call.op = "chunk" /\ ~pl.auto_mode
    /\ ~call.fetched.some
    => /\ pl.result # "Err"
       /\ pl.sink # <<>>

\* the streams and worker threads of playbackSimulation that run
PS_Started ==
    {x \in {"poller", "output stream", "input stream", "monitor", "controller"} :
        \/ x = "poller" /\ lv.poller # "off"
        \/ x = "output stream" /\ lv.out_stream # "none"
        \/ x = "input stream" /\ lv.in_stream # "none"
        \/ x = "monitor" /\ lv.monitor
        \/ x = "controller" /\ lv.controller}

\* C19: when the input audio file is missing or cannot be decoded, the
\* program terminates with a failure result before any playback stream or
\* worker thread is started, in audio_playback6 and in playbackSimulation.
C19_InputErrorBeforeAnyStream ==
    /\ prog = "audio_playback6" /\ call.op = "input_error"
           => pl.result = "Err" /\ ~call.stream_started
    /\ prog = "playbackSimulation" /\ lv.load_failed
           => /\ PS_Started = {}
              /\ lv.main_pc = "returned" => lv.result = "Err"

\* C20: when the playback queue runs empty, the live output callback writes
\* the sample 0 to every remaining frame of the buffer and returns, for any
\* published gain; the queue stays empty and the played counter is not
\* increased for those frames.
C20_UnderflowWritesSilence ==
    call.op = "output_callback" /\ Len(call.queue) < call.nframes
        => /\ Len(call.data) = call.nframes
           /\ \A k \in (Len(call.queue) + 1)..call.nframes : call.data[k] = 0
           /\ call.queue_after = <<>>
           /\ call.played_after - call.played_before
                  <= lv.channels_out * Len(call.queue)

C20_Witness ==
    /\ call.op = "output_callback" /\ call.nframes = 2
    /\ Len(call.queue) = 1 /\ call.queue[1] # 0
    /\ call.gain > One(DB)
    /\ call.data[1] # 0 /\ call.data[2] = 0
    /\ lv.playback_queue = <<>>
    /\ call.played_after = call.played_before + lv.channels_out

\* the threads of the lock-by-lock run and the locks a thread holds
Threads == {"poller", "controller", "monitor", "input", "output"}
Held(t) == {l \in Mutexes : th.locks[l] = t}

\* the pcs at which a thread holds the gain or the speed lock for its single
\* read or its single replace, which the next step of the thread performs
SingleAccess(l, t) ==
    \/ l = "gain" /\ t = "controller" /\ th.controller = "publish"
    \/ l = "gain" /\ t = "monitor" /\ th.monitor = "read"
    \/ l = "gain" /\ t = "output" /\ th.output = "read_gain"
    \/ l = "speed" /\ t = "poller" /\ th.poller = "store"
    \/ l = "speed" /\ t = "controller" /\ th.controller = "read_speed"

\* C21: in live mode no thread holds the gain, speed or playback-queue lock
\* while it performs network I/O, so the output callback never waits on a
\* lock whose holder is blocked in an HTTP request; the gain and speed locks
\* are held only for a single read or a single replace.
C21_NoLockHeldAcrossNetworkIO ==
    prog = "playbackSimulation_threads"
        => /\ th.poller = "io" => Held("poller") = {}
           /\ LockAsked(th.output) # "none" /\ th.poller = "io"
                  => th.locks[LockAsked(th.output)] # "poller"
           /\ \A l \in {"gain", "speed"} :
                  th.locks[l] # "free" => SingleAccess(l, th.locks[l])

C21_Witness ==
    /\ prog = "playbackSimulation_threads"
    /\ th.poller = "io" /\ lv.speed_shared = Lit(DB, 120, 1)
    /\ th.output = "lock_gain" /\ th.locks["queue"] = "output"
    /\ th.locks["gain"] = "monitor"
    /\ th.locks["speed"] = "controller"

\* the nominal duration of a chunk of the running file pipeline: the frames
\* of a chunk divided by the sample rate, in seconds and in ticks
NominalDuration ==
    FDiv(DB, Lit(DB, pl.chunk_size \div pl.channels, 1), Lit(DB, pl.sample_rate, 1))

\* C22: in every file-mode chunk loop the simulated-time increment and the
\* sleep after each chunk equal the nominal duration of the chunk (frames per
\* chunk divided by the sample rate).
C22_ClockStepIsChunkDuration ==
    call.op \in {"chunk", "chunk3"} /\ call.frames > 0
        => /\ FSub(DB, call.t_after, call.t_before) = NominalDuration
           /\ call.slept = from_secs_f32(NominalDuration)

\* playback has stopped: the stream has played samples and the queue has
\* fully drained
PS_Drained ==
    /\ prog = "playbackSimulation"
    /\ lv.out_stream = "playing"
    /\ lv.played_counter > 0
    /\ lv.playback_queue = <<>>

\* the program has ended, and its threads with it
PS_Ended == lv.main_pc = "returned"

\* C23: in live mode, once the playback queue has fully drained, the polling
\* thread and the other worker threads eventually terminate and the program
\* ends.
C23_ThreadsEndAfterDrain == [](PS_Drained => <>PS_Ended)

\* ------------------------------------------------- C28: no deadlock on the mutexes
\* playbackSimulation once every thread runs, lock by lock. Scheduling: a
\* thread that holds a lock keeps running until it has released it (weak
\* fairness of the steps made with a lock held; compute_gain, made with the
\* adaptive lock only the controller takes, needs no assumption), and a
\* thread that asks for a lock that is free again and again gets it in the end
\* (strong fairness of lock()).
ThreadInit == Init /\ prog = "playbackSimulation_threads"
ThreadNext ==
    \/ T_PollSend
    \/ T_PollRecv
    \/ T_PollAcquire
    \/ T_PollStore
    \/ T_CtrlAcquire
    \/ T_CtrlClone
    \/ T_CtrlReadSpeed
    \/ T_CtrlCompute
    \/ T_CtrlPublish
    \/ T_MonAcquire
    \/ T_MonLen
    \/ T_MonRead
    \/ T_InAcquire
    \/ T_InPush
    \/ T_OutAcquire
    \/ T_OutReadGain
    \/ T_OutFrames
ThreadSpec ==
    /\ ThreadInit
    /\ [][ThreadNext]_vars
    /\ WF_vars(T_PollStore)
    /\ WF_vars(T_CtrlClone)
    /\ WF_vars(T_CtrlReadSpeed)
    /\ WF_vars(T_CtrlPublish)
    /\ WF_vars(T_MonLen)
    /\ WF_vars(T_MonRead)
    /\ WF_vars(T_InPush)
    /\ WF_vars(T_OutReadGain)
    /\ WF_vars(T_OutFrames)
    /\ SF_vars(T_PollAcquire)
    /\ SF_vars(T_CtrlAcquire)
    /\ SF_vars(T_MonAcquire)
    /\ SF_vars(T_InAcquire)
    /\ SF_vars(T_OutAcquire)

\* thread t is blocked in lock() of mutex l (the controller takes no new
\* microphone buffer once MaxTicks gains are computed)
Asks(t, l) ==
    /\ prog = "playbackSimulation_threads"
    /\ LockAsked(th[t]) = l
    /\ t = "controller" /\ l = "ctrl" => lv.ticks < MaxTicks

\* the mutexes each thread locks
Uses(t) ==
    CASE t = "poller" -> {"speed"}
      [] t = "controller" -> {"ctrl", "speed", "adaptive", "gain"}
      [] t = "monitor" -> {"queue", "gain"}
      [] t = "input" -> {"ctrl"}
      [] OTHER -> {"queue", "gain"}

\* what a thread may hold while it asks for a lock: nothing, except the
\* output callback, which asks for the gain lock with the queue lock held
LockOrder ==
    \A t \in Threads :
        /\ Cardinality(Held(t)) <= IF t = "output" THEN 2 ELSE 1
        /\ Cardinality(Held(t)) = 2 => Held(t) = {"queue", "gain"}
        /\ LockAsked(th[t]) # "none" /\ Held(t) # {}
               => t = "output" /\ Held(t) = {"queue"} /\ LockAsked(th[t]) = "gain"

SpeedPair == prog = "speed_to_noise" /\ call.op = "speed_to_noise"

\* C24: speed_to_noise is strictly increasing in speed for speed >= 0: for
\* all 0 <= s1 < s2, speed_to_noise(s1) < speed_to_noise(s2).
C24_StrictlyIncreasing ==
    SpeedPair => call.n1 < call.n2

\* C24 as the code has it: speed_to_noise never decreases with speed, and it
\* strictly increases whenever s2 + 1 is at least twice s1 + 1; two speeds
\* closer than the rounding of the result can give the same noise level.
C24_Amended ==
    SpeedPair =>
        /\ call.n1 <= call.n2
        /\ call.s2 + One(DB) >= 2 * (call.s1 + One(DB)) => call.n1 < call.n2

\* two different speeds with the same noise level
C24_Witness ==
    /\ SpeedPair
    /\ call.s1 < call.s2
    /\ call.n1 = call.n2

\* ------------------------------------------------- C25: range of the noise model
\* C25: for every speed in [0, 120] km/h, including speed 0,
\* speed_to_noise(speed) is strictly above 40 dB and strictly below 90 dB.
C25_NoiseStrictlyWithin40And90 ==
    SpeedPair =>
        /\ call.n1 > Lit(DB, 40, 1) /\ call.n1 < Lit(DB, 90, 1)
        /\ call.n2 > Lit(DB, 40, 1) /\ call.n2 < Lit(DB, 90, 1)

\* ------------------------------------------------- C26: convergence of step_dt
Converging == prog = "converge" /\ call.op = "converge"

\* C26: with a constant target and repeated step_dt(target, dt) calls, dt > 0,
\* the remaining error decreases at every step (it stays 0 once the target is
\* reached), and once the elapsed time has reached 5 * tau, tau being the
\* time constant of the direction of change, the value is within 1% of the
\* target, the 1% taken of the distance the run started with.
C26_ConvergesToConstantTarget ==
    Converging =>
        /\ call.prev # call.target =>
               Abs(call.ret - call.target) < Abs(call.prev - call.target)
        /\ call.prev = call.target => call.ret = call.target
        /\ call.elapsed >= 5 * call.tau =>
               100 * Abs(call.ret - call.target) <= Abs(call.start - call.target)

\* ------------------------------------------------- C27: duplicate compute_gain
\* compute_gain called at the instant of the previous call (or of new)
SameInstant ==
    /\ prog \in {"gain", "live_gain"}
    /\ call.op = "compute_gain"
    /\ call.elapsed = 0

\* C27: AdaptiveGain::compute_gain called with zero elapsed time since the
\* previous call leaves last_gain_db unchanged whatever the new raw gain is,
\* in gain.rs and in playbackSimulation.rs.
C27_ZeroElapsedIsNoOp ==
    SameInstant => call.ret = call.prev

\* ------------------------------------------------- C29: the chunk loop of audio_playback6
\* the least n with n * d >= len
CeilDiv(len, d) == CHOOSE n \in 0..len : n * d >= len /\ (n = 0 \/ (n - 1) * d < len)

\* main of audio_playback6 has returned Ok after its chunk loop
P6_Done == prog = "audio_playback6" /\ pl.pc = "returned" /\ pl.result = "Ok"

\* the chunks appended so far are cut from the input one after the other,
\* from its first sample on, each of chunk_size samples except possibly one
\* that ends the input; one smoother step and one iteration per chunk
P6_Contiguous ==
    /\ Len(pl.sink) = Len(pl.ranges)
    /\ pl.steps = Len(pl.sink)
    /\ pl.i = Len(pl.sink)
    /\ \A k \in 1..Len(pl.ranges) :
           /\ pl.ranges[k][1] = IF k = 1 THEN 0 ELSE pl.ranges[k - 1][2]
           /\ pl.ranges[k][1] < pl.ranges[k][2]
           /\ Len(pl.sink[k]) = pl.ranges[k][2] - pl.ranges[k][1]
           /\ \/ Len(pl.sink[k]) = pl.chunk_size
              \/ /\ Len(pl.sink[k]) < pl.chunk_size
                 /\ pl.ranges[k][2] = Len(pl.samples_f32)

\* the chunk appended last holds the input samples of its range, in input
\* order, each with the gain of the chunk applied
P6_LastChunkInOrder ==
    call.op = "chunk" /\ call.sunk =>
        LET k == Len(pl.sink)
        IN  /\ k = call.chunk + 1
            /\ \A j \in 1..Len(pl.sink[k]) :
                   pl.sink[k][j] =
                       P6_sample(pl.samples_f32[pl.ranges[k][1] + j], call.gain_lin)

\* C29: the file-mode chunk loop ends after exactly ceil(len / chunk_size)
\* iterations (none for an empty input); the chunks it appends to the sink
\* are contiguous, in input order and non-overlapping, each of chunk_size
\* samples except possibly the last, so that every input sample is emitted
\* exactly once, and the smoother is stepped exactly once per emitted chunk.
C29_ChunkLoopCoversInputOnce ==
    prog = "audio_playback6" /\ pl.pc \in {"loop", "drain", "returned"} =>
        /\ pl.result = "Ok" \/ pl.pc # "returned" => P6_Contiguous /\ P6_LastChunkInOrder
        /\ pl.pc # "drain"
        /\ P6_Done =>
               /\ pl.i = CeilDiv(Len(pl.samples_f32), pl.chunk_size)
               /\ Len(pl.samples_f32) = 0 => pl.sink = <<>>
               /\ Len(pl.samples_f32) > 0 =>
                      pl.ranges[Len(pl.ranges)][2] = Len(pl.samples_f32)

\* a finished run with a full chunk and a shorter one after it
C29_Witness ==
    /\ P6_Done
    /\ Len(pl.sink) = 2
    /\ Len(pl.sink[1]) = pl.chunk_size
    /\ Len(pl.sink[2]) < pl.chunk_size

\* ------------------------------------------------- C30: the playback queue in live mode
\* live mode after read_wav_to_queue has filled the queue
LiveLoaded ==
    \/ prog = "playbackSimulation" /\ lv.main_pc # "load"
    \/ prog = "playbackSimulation_threads"

\* q2 is what is left of q1 after samples were taken from its front
IsSuffix(q2, q1) ==
    /\ Len(q2) <= Len(q1)
    /\ q2 = SubSeq(q1, Len(q1) - Len(q2) + 1, Len(q1))

\* the callback logged last gave the k-th sample of the queue to its k-th
\* frame and to no other, silence to the frames beyond the queue, and left
\* the samples it did not take
FramesInQueueOrder ==
    /\ \A k \in 1..call.nframes :
           call.data[k] = IF k <= Len(call.queue)
                          THEN PS_soft_clip(FMul(DB, call.queue[k], call.gain))
                          ELSE 0
    /\ IsSuffix(call.queue_after, call.queue)
    /\ Len(call.queue_after) = Len(call.queue) - FMin(call.nframes, Len(call.queue))

\* C30: in live mode, under any interleaving of the output callback with the
\* controller, poller and monitor threads, queued samples are consumed in
\* first-in-first-out order, each sample is written to at most one output
\* frame, the queue length never increases after the initial load, and the
\* played-sample counter never decreases.
C30_QueueConsumedInOrder ==
    /\ [][LiveLoaded =>
              /\ IsSuffix(lv'.playback_queue, lv.playback_queue)
              /\ lv'.played_counter >= lv.played_counter]_vars
    /\ [](prog = "playbackSimulation" /\ call.op = "output_callback"
              => FramesInQueueOrder)

\* a callback that took two of three queued samples after the controller had
\* published a gain and the poller a speed
C30_Witness ==
    /\ prog = "playbackSimulation"
    /\ call.op = "output_callback"
    /\ Len(call.queue) = 3 /\ call.nframes = 2 /\ Len(lv.playback_queue) = 1
    /\ lv.ticks > 0 /\ lv.speed_shared > 0
    /\ call.gain # One(DB)
    /\ lv.played_counter > 0
====
